---- MODULE Spec2Model ----
(***************************************************************************)
(* Verification model of the pi-decoder control core:                      *)
(*   - the mpv JSON IPC channel (MpvManager._send / _ipc_reader),          *)
(*   - the stream-retry / failover part of MpvManager._health_loop,       *)
(*   - the PCO live-plan tracker (PCOClient),                              *)
(*   - the discovery scan PCOClient._find_best_live_plan.                  *)
(* Each part has its own specification over its own variables; the other   *)
(* parts' variables stay at their initial values.                          *)
(***************************************************************************)
EXTENDS Integers, Sequences, FiniteSets, TLC

VARIABLES
    \* ---- IPC channel (mpv_manager.py) ----
    writer,        \* self._writer is set (TRUE) or None (FALSE)
    reading,       \* self._read_task is running
    ipc_lock,      \* holder of self._ipc_lock: 0 = free, else the _send call
    request_id,    \* self._request_id
    pending,       \* self._pending: request id -> the _send call owning the future
    pc,            \* position of each _send call
    rid,           \* local rid of each _send call (0 = not yet allocated)
    fut,           \* state of each _send call's future
    wire,          \* request ids written to the socket, in order
    resolvedBy,    \* history: ids of the response lines that resolved each call
    delivered,     \* history: ids of response lines that arrived while their
                   \* request was outstanding
    reconnected,   \* history: a reconnect happened after an id was allocated
    allocAfterReconnect, \* history: calls whose id was allocated after a reconnect
    readerSaw      \* history: what the last step was to _ipc_reader: "none" (not
                   \* its step), "eof", or the kind of line it read

VARIABLES
    \* ---- health loop and stream retry (mpv_manager.py) ----
    hpc,                  \* position of the health task in _health_loop
    alive,                \* is_alive_sync(): process exists and has not exited
    restart_backoff,      \* self._restart_backoff, in 1/64 s
    stream_retry_backoff, \* self._stream_retry_backoff, in 1/64 s
    last_stream_attempt,  \* self._last_stream_attempt: 0 = the reset value 0.0,
                          \* 1 = a time.monotonic() stamp of an attempt
    stream_failures,      \* self._stream_failures
    using_backup,         \* self._using_backup
    user_stopped,         \* self._user_stopped
    last_connection_type, \* self._last_connection_type
    config_url,           \* config.stream.url is non-empty
    config_backup_url,    \* config.stream.backup_url is non-empty
    use_url,              \* URL of the reload the health loop issued last
    cycle,                \* history: consecutive idle-and-reload cycles since the
                          \* last reset_stream_retry or not-idle observation
    streakClean,          \* history: using_backup was false when that streak began
    lastReset,            \* history: whether the last step ran reset_stream_retry
                          \* ("none", "noop": it changed nothing, "changed")
    hstep,                \* history: the operation the last step belongs to
    lastWait,             \* history: the delay slept before the previous restart
                          \* by the health loop, 0 once a ping was answered since
    retry_off             \* history: "operator" since a stop_stream that no
                          \* load_stream or reset_stream_retry call followed,
                          \* "network" once the health loop reset the retry
                          \* state after it, "no" otherwise

healthVars == <<hpc, alive, restart_backoff, stream_retry_backoff,
                last_stream_attempt, stream_failures, using_backup, user_stopped,
                last_connection_type, config_url, config_backup_url, use_url,
                cycle, streakClean, lastReset, hstep, lastWait, retry_off>>

VARIABLES
    \* ---- discovery scan (pco_client.py, _find_best_live_plan) ----
    scan_input,    \* what the remote API answers during one scan
    scan_result,   \* the tuple the scan returned
    scan_done      \* the scan has run

scanVars == <<scan_input, scan_result, scan_done>>

VARIABLES
    \* ---- live-plan tracker (pco_client.py, PCOClient) ----
    tpc,                  \* position of the get_live_status call in progress
    locked_plan_id,       \* self._locked_plan_id
    locked_st_id,         \* self._locked_st_id
    locked_service_start, \* self._locked_service_start
    locked_planned_end,   \* self._locked_planned_end
    locked_live_start_at, \* self._locked_live_start_at
    seen_active_item,     \* self._seen_active_item
    last_full_scan,       \* self._last_full_scan
    credential_error,     \* self._credential_error
    cached_status,        \* self._cached_status
    configured,           \* the id the search mode needs is configured
    clock,                \* time.time(), in seconds
    t_status,             \* local "status" of _fetch_live_status_locked
    t_best,               \* local "best" of _discover_and_poll
    returned,             \* what the last get_live_status call returned
    nPolls,               \* history: plan polls completed by the current call
    nScans,               \* history: full scans completed by the current call
    startedLocked,        \* history: the current call took the fast path
    lockAtStart,          \* history: locked_plan_id when the call began
    lockStateAtStart,     \* history: the lock fields and the latch at that time
    fastLive,             \* history: its fast-path poll reported live/finished
    elapsedAtPoll,        \* history: time since the last full scan at that poll
    switched,             \* history: its rescan switched the lock
    rescanInput,          \* history: what its rescan met (<< >> before it)
    lastResp,             \* history: the answer to the poll completed last
    lastRescanAt,         \* history: when the last rescan while locked began
    rescanGapOk           \* history: every rescan so far began at least the
                          \* scan interval after the rescan before it

trackerVars == <<tpc, locked_plan_id, locked_st_id, locked_service_start,
                 locked_planned_end, locked_live_start_at, seen_active_item,
                 last_full_scan, credential_error, cached_status, configured,
                 clock, t_status, t_best, returned, nPolls, nScans,
                 startedLocked, lockAtStart, lockStateAtStart, fastLive,
                 elapsedAtPoll, switched, rescanInput, lastResp, lastRescanAt,
                 rescanGapOk>>

VARIABLES
    \* ---- circuit breaker of the tracker (described by the specification and
    \*      exercised by tests/test_pco_client.py; pco_client.py has no such
    \*      fields) ----
    consecutive_failures, \* _consecutive_failures
    backoff_until         \* _backoff_until, 0 = no window

breakerVars == <<consecutive_failures, backoff_until>>

VARIABLES
    \* ---- overlay loop (overlay.py, OverlayUpdater) ----
    opc,                \* position of the task in OverlayUpdater.run
    o_running,          \* self._running
    o_poll_interval,    \* local poll_interval of run
    seconds_since_poll, \* local seconds_since_poll of run
    last_status,        \* self._last_status
    overlay_enabled,    \* config.overlay.enabled
    pushed,             \* the status whose markup was pushed last
    slotSkipped,        \* history: the last poll slot was skipped
    stop_pc,            \* position of the caller of OverlayUpdater.stop
    overlay_shown       \* a push was issued and no remove-overlay since

overlayVars == <<opc, o_running, o_poll_interval, seconds_since_poll,
                 last_status, overlay_enabled, pushed, slotSkipped, stop_pc,
                 overlay_shown>>

VARIABLES
    \* ---- lifecycle operations (mpv_manager.py, start / stop / restart) ----
    lifecycle_lock,  \* self._lifecycle_lock: its holder, LcFree when unlocked
    lc_pc,           \* position of every caller of a lifecycle operation; the
                     \* health task is one of them
    lc_op,           \* the operation each caller is in
    stopping,        \* self._stopping
    process,         \* self._process is a running process
    lc_connected,    \* self._writer is set
    lc_pending,      \* self._pending is not empty
    n_live,          \* history: player processes spawned and still running
    stop_steps       \* history: what the _stop_unlocked entered last has done

lifecycleVars == <<lifecycle_lock, lc_pc, lc_op, stopping, process,
                   lc_connected, lc_pending, n_live, stop_steps>>

VARIABLES
    \* ---- the tracker mutex (pco_client.py, PCOClient._lock) ----
    tracker_mutex,  \* self._lock: its holder, MxFree when unlocked
    f_pc,           \* position of every caller of get_live_status
    f_locked        \* self._locked_plan_id and self._locked_st_id are set

mutexVars == <<tracker_mutex, f_pc, f_locked>>

VARIABLES
    \* ---- calls of the pure functions (overlay.py, pco_client.py) ----
    calc_pc,   \* "input": the arguments are chosen, "done": the call returned
    calc_in,   \* the arguments
    calc_out   \* the value returned

calcVars == <<calc_pc, calc_in, calc_out>>

ipcVars == <<writer, reading, ipc_lock, request_id, pending, pc, rid, fut,
             wire, resolvedBy, delivered, reconnected, allocAfterReconnect,
             readerSaw>>

vars == <<ipcVars, healthVars, scanVars, trackerVars, breakerVars,
          overlayVars, lifecycleVars, mutexVars, calcVars>>

\* What a step of one part leaves alone: the other parts' variables.
IpcFrame ==
    UNCHANGED <<healthVars, scanVars, trackerVars, breakerVars, overlayVars,
                lifecycleVars, mutexVars, calcVars>>

HealthFrame ==
    UNCHANGED <<ipcVars, scanVars, trackerVars, breakerVars, overlayVars,
                lifecycleVars, mutexVars, calcVars>>

ScanFrame ==
    UNCHANGED <<ipcVars, healthVars, trackerVars, breakerVars, overlayVars,
                lifecycleVars, mutexVars, calcVars>>

\* No method of PCOClient reads or writes the circuit breaker's fields.
TrackerFrame ==
    UNCHANGED <<ipcVars, healthVars, scanVars, breakerVars, overlayVars,
                lifecycleVars, mutexVars, calcVars>>

BreakerFrame ==
    UNCHANGED <<ipcVars, healthVars, scanVars, trackerVars, overlayVars,
                lifecycleVars, mutexVars, calcVars>>

OverlayFrame ==
    UNCHANGED <<ipcVars, healthVars, scanVars, trackerVars, breakerVars,
                lifecycleVars, mutexVars, calcVars>>

\* What a step of the overlay loop inside the tracker leaves alone.
PollFrame ==
    UNCHANGED <<ipcVars, healthVars, scanVars, breakerVars, lifecycleVars,
                mutexVars, calcVars>>

LifecycleFrame ==
    UNCHANGED <<ipcVars, healthVars, scanVars, trackerVars, breakerVars,
                overlayVars, mutexVars, calcVars>>

MutexFrame ==
    UNCHANGED <<ipcVars, healthVars, scanVars, trackerVars, breakerVars,
                overlayVars, lifecycleVars, calcVars>>

CalcFrame ==
    UNCHANGED <<ipcVars, healthVars, scanVars, trackerVars, breakerVars,
                overlayVars, lifecycleVars, mutexVars>>

\* ---------------------------------------------------------------------------
\* Bounds
\* ---------------------------------------------------------------------------
\* Number of _send invocations made during a behaviour.
NCalls == 2

Calls == 1..NCalls

\* Discovery scan inputs: service types per scan, plans per plan list.
MaxServiceTypes == 2

MaxPlans == 1

\* Number of half scan intervals the clock advances during a behaviour.
MaxTicks == 4

\* Largest configured poll interval, in seconds.
MaxPollInterval == 3

\* Cap on the failures recorded by the circuit breaker.
MaxRecorded == 7

\* Cap on self._stream_failures (the counter is unbounded in the code).
NOperators == 2
NFetchers == 4
MaxCountdown == 3700
MaxRemaining == 125
MaxItems == 3
MaxProcesses == 2
MaxFailures == 8

\* ---------------------------------------------------------------------------
\* IPC channel
\* ---------------------------------------------------------------------------

\* An inbound line as _ipc_reader sees it.  rid = 0 stands for a message
\* without request_id (or a falsy one); ids above NCalls were never issued.
\* "malformed" is text that is no JSON; "bad_shape" is a line that is no JSON
\* object (bytes that are no UTF-8, or a JSON value such as null or a list).
Lines ==
    [kind : {"msg"}, rid : 0..(NCalls + 1), error : {"success", "failure"}]
      \cup [kind : {"malformed", "bad_shape"}, rid : {0}, error : {"failure"}]

\* self._request_id += 1
NextRequestId(n) == n + 1

MinOf(S) == CHOOSE x \in S : \A y \in S : x <= y

\* `rid and rid in self._pending`: the pending entry a message resolves
\* (0 = none).
MatchPendingFifo(pend, r) ==
    IF r # 0 /\ DOMAIN pend # {} THEN MinOf(DOMAIN pend) ELSE 0

MatchPending(pend, r) == IF r # 0 /\ r \in DOMAIN pend THEN r ELSE 0

\* dict without key r
DropKey(pend, r) == [k \in (DOMAIN pend) \ {r} |-> pend[k]]

\* what the except-clause of _send removes on a timeout
TimeoutPopsNothing(pend, r) == pend

TimeoutPop(pend, r) == DropKey(pend, r)

InitIpcVars ==
    /\ writer = FALSE
    /\ reading = FALSE
    /\ ipc_lock = 0
    /\ request_id = 0
    /\ pending = << >>
    /\ pc = [c \in Calls |-> "idle"]
    /\ rid = [c \in Calls |-> 0]
    /\ fut = [c \in Calls |-> "none"]
    /\ wire = << >>
    /\ resolvedBy = [c \in Calls |-> << >>]
    /\ delivered = {}
    /\ reconnected = FALSE
    /\ allocAfterReconnect = {}
    /\ readerSaw = "none"

connect_ipc_resets_request_id ==
    /\ ~writer
    /\ writer' = TRUE
    /\ reading' = TRUE
    /\ request_id' = 0
    /\ reconnected' = (reconnected \/ request_id > 0)
    /\ UNCHANGED <<ipc_lock, pending, pc, rid, fut, wire,
                   resolvedBy, delivered, allocAfterReconnect>>
    /\ readerSaw' = "none"
    /\ IpcFrame

\* _connect_ipc, successful attempt: reader/writer set, read task created.
connect_ipc ==
    /\ ~writer
    /\ writer' = TRUE
    /\ reading' = TRUE
    /\ reconnected' = (reconnected \/ request_id > 0)
    /\ UNCHANGED <<ipc_lock, request_id, pending, pc, rid, fut, wire,
                   resolvedBy, delivered, allocAfterReconnect>>
    /\ readerSaw' = "none"
    /\ IpcFrame

\* _disconnect_ipc up to its first suspension: the read task is cancelled.
disconnect_ipc_cancel_reader ==
    /\ reading
    /\ reading' = FALSE
    /\ UNCHANGED <<writer, ipc_lock, request_id, pending, pc, rid, fut, wire,
                   resolvedBy, delivered, reconnected, allocAfterReconnect>>
    /\ readerSaw' = "none"
    /\ IpcFrame

disconnect_ipc_drops_table ==
    /\ ~reading
    /\ writer \/ DOMAIN pending # {}
    /\ writer' = FALSE
    /\ pending' = << >>
    /\ UNCHANGED <<reading, ipc_lock, request_id, pc, rid, fut, wire,
                   resolvedBy, delivered, reconnected, allocAfterReconnect>>
    /\ readerSaw' = "none"
    /\ IpcFrame

\* _disconnect_ipc after the writer is closed: reader/writer unset, every
\* pending future that is not done is cancelled, the table is cleared.
disconnect_ipc_clear ==
    /\ ~reading
    /\ writer \/ DOMAIN pending # {}
    /\ writer' = FALSE
    /\ fut' = [c \in Calls |->
                 IF (\E k \in DOMAIN pending : pending[k] = c) /\ fut[c] = "pending"
                 THEN "cancelled" ELSE fut[c]]
    /\ pending' = << >>
    /\ UNCHANGED <<reading, ipc_lock, request_id, pc, rid, wire,
                   resolvedBy, delivered, reconnected, allocAfterReconnect>>
    /\ readerSaw' = "none"
    /\ IpcFrame

\* _ipc_reader: readline returned b"" (EOF): the loop breaks.
ipc_reader_eof ==
    /\ reading
    /\ reading' = FALSE
    /\ UNCHANGED <<writer, ipc_lock, request_id, pending, pc, rid, fut, wire,
                   resolvedBy, delivered, reconnected, allocAfterReconnect>>
    /\ readerSaw' = "eof"
    /\ IpcFrame

\* _ipc_reader: one iteration of the loop on one inbound line.
ipc_reader(line) ==
    /\ reading
    /\ IF line.kind = "malformed"
       THEN \* json.JSONDecodeError: continue
            UNCHANGED <<reading, pending, fut, resolvedBy>>
       ELSE IF line.kind = "bad_shape"
       THEN \* json.loads raises UnicodeDecodeError, or msg.get raises on a
            \* value that is no object: `except Exception`, the reader ends
            /\ reading' = FALSE
            /\ UNCHANGED <<pending, fut, resolvedBy>>
       ELSE LET k == MatchPending(pending, line.rid) IN
            IF k = 0
            THEN UNCHANGED <<reading, pending, fut, resolvedBy>>
            ELSE LET c == pending[k] IN
                 /\ pending' = DropKey(pending, k)
                 /\ IF fut[c] = "pending"
                    THEN /\ fut' = [fut EXCEPT ![c] =
                                      IF line.error = "success"
                                      THEN "result" ELSE "exception"]
                         /\ resolvedBy' = [resolvedBy EXCEPT ![c] = Append(@, line.rid)]
                    ELSE UNCHANGED <<fut, resolvedBy>>
                 /\ UNCHANGED reading
    /\ delivered' =
          IF /\ line.kind = "msg"
             /\ line.rid \in DOMAIN pending
             /\ fut[pending[line.rid]] = "pending"
          THEN delivered \cup {line.rid} ELSE delivered
    /\ UNCHANGED <<writer, ipc_lock, request_id, pc, rid, wire,
                   reconnected, allocAfterReconnect>>
    /\ readerSaw' = IF line.kind # "msg" THEN line.kind
                     ELSE IF MatchPending(pending, line.rid) = 0 THEN "unmatched"
                     ELSE "matched"
    /\ IpcFrame

\* _send, `async with self._ipc_lock` with no writer: RuntimeError.
send_not_connected(c) ==
    /\ pc[c] = "idle"
    /\ ipc_lock = 0
    /\ ~writer
    /\ pc' = [pc EXCEPT ![c] = "not_connected"]
    /\ UNCHANGED <<writer, reading, ipc_lock, request_id, pending, rid, fut,
                   wire, resolvedBy, delivered, reconnected, allocAfterReconnect>>
    /\ readerSaw' = "none"
    /\ IpcFrame

\* _send from taking the lock to the suspension in drain(): the id is
\* allocated, the future registered and the payload written in one step.
send_write(c) ==
    /\ pc[c] = "idle"
    /\ ipc_lock = 0
    /\ writer
    /\ LET r == NextRequestId(request_id) IN
       /\ request_id' = r
       /\ rid' = [rid EXCEPT ![c] = r]
       /\ pending' = [k \in (DOMAIN pending) \cup {r} |->
                        IF k = r THEN c ELSE pending[k]]
       /\ wire' = Append(wire, r)
    /\ fut' = [fut EXCEPT ![c] = "pending"]
    /\ ipc_lock' = c
    /\ pc' = [pc EXCEPT ![c] = "draining"]
    /\ allocAfterReconnect' =
          IF reconnected THEN allocAfterReconnect \cup {c} ELSE allocAfterReconnect
    /\ UNCHANGED <<writer, reading, resolvedBy, delivered, reconnected>>
    /\ readerSaw' = "none"
    /\ IpcFrame

\* drain() returns: the lock is released, the call awaits its future.
send_drained(c) ==
    /\ pc[c] = "draining"
    /\ ipc_lock' = 0
    /\ pc' = [pc EXCEPT ![c] = "waiting"]
    /\ UNCHANGED <<writer, reading, request_id, pending, rid, fut, wire,
                   resolvedBy, delivered, reconnected, allocAfterReconnect>>
    /\ readerSaw' = "none"
    /\ IpcFrame

\* drain() raises (connection reset): the lock is released, the exception
\* leaves _send; nothing removes the registered entry.
send_drain_fails(c) ==
    /\ pc[c] = "draining"
    /\ ipc_lock' = 0
    /\ pc' = [pc EXCEPT ![c] = "write_failed"]
    /\ UNCHANGED <<writer, reading, request_id, pending, rid, fut, wire,
                   resolvedBy, delivered, reconnected, allocAfterReconnect>>
    /\ readerSaw' = "none"
    /\ IpcFrame

\* wait_for(fut) completes because the future is done.
send_wakes(c) ==
    /\ pc[c] = "waiting"
    /\ fut[c] \in {"result", "exception", "cancelled"}
    /\ pc' = [pc EXCEPT ![c] = CASE fut[c] = "result" -> "ok"
                                 [] fut[c] = "exception" -> "error"
                                 [] OTHER -> "cancelled"]
    /\ UNCHANGED <<writer, reading, ipc_lock, request_id, pending, rid, fut,
                   wire, resolvedBy, delivered, reconnected, allocAfterReconnect>>
    /\ readerSaw' = "none"
    /\ IpcFrame

\* wait_for(fut) times out: the future is cancelled, the except-clause pops
\* the entry and re-raises.
send_timeout(c) ==
    /\ pc[c] = "waiting"
    /\ fut[c] = "pending"
    /\ fut' = [fut EXCEPT ![c] = "cancelled"]
    /\ pending' = TimeoutPop(pending, rid[c])
    /\ pc' = [pc EXCEPT ![c] = "timeout"]
    /\ UNCHANGED <<writer, reading, ipc_lock, request_id, rid, wire,
                   resolvedBy, delivered, reconnected, allocAfterReconnect>>
    /\ readerSaw' = "none"
    /\ IpcFrame

\* The task running _send is cancelled while suspended (stop() cancelling
\* the health task): CancelledError is not caught by _send.
send_cancelled(c) ==
    /\ pc[c] \in {"draining", "waiting"}
    /\ ipc_lock' = IF ipc_lock = c THEN 0 ELSE ipc_lock
    /\ fut' = [fut EXCEPT ![c] = IF @ = "pending" THEN "cancelled" ELSE @]
    /\ pc' = [pc EXCEPT ![c] = "cancelled"]
    /\ UNCHANGED <<writer, reading, request_id, pending, rid, wire,
                   resolvedBy, delivered, reconnected, allocAfterReconnect>>
    /\ readerSaw' = "none"
    /\ IpcFrame

\* ---------------------------------------------------------------------------
\* Health loop: stream retry and failover (MpvManager._health_loop)
\* ---------------------------------------------------------------------------

\* Durations are kept in 1/64 s, which makes every value of the x1.5 growth
\* from 5.0 s up to the 60.0 s cap an integer.
StreamRetryFloor == 5 * 64

RestartFloor == 3 * 64

BackoffCap == 60 * 64

\* consecutive idle checks before switching to the backup URL
_FAILOVER_THRESHOLD == 3

Min(a, b) == IF a <= b THEN a ELSE b

\* net.get("connection_type", "") as _get_network_info reports it
ConnTypes == {"none", "hotspot", "wifi", "ethernet"}

\* The attributes of the manager that drive restart and stream retry.
Engine ==
    [restart_backoff |-> restart_backoff,
     stream_retry_backoff |-> stream_retry_backoff,
     last_stream_attempt |-> last_stream_attempt,
     stream_failures |-> stream_failures,
     using_backup |-> using_backup,
     user_stopped |-> user_stopped,
     last_connection_type |-> last_connection_type]

SetEngine(e) ==
    /\ restart_backoff' = e.restart_backoff
    /\ stream_retry_backoff' = e.stream_retry_backoff
    /\ last_stream_attempt' = e.last_stream_attempt
    /\ stream_failures' = e.stream_failures
    /\ using_backup' = e.using_backup
    /\ user_stopped' = e.user_stopped
    /\ last_connection_type' = e.last_connection_type

ResetStreamRetryKeepsBackup(e) ==
    [e EXCEPT !.stream_retry_backoff = StreamRetryFloor,
              !.last_stream_attempt = 0,
              !.user_stopped = FALSE,
              !.stream_failures = 0]

\* reset_stream_retry()
ResetStreamRetry(e) ==
    [e EXCEPT !.stream_retry_backoff = StreamRetryFloor,
              !.last_stream_attempt = 0,
              !.user_stopped = FALSE,
              !.stream_failures = 0,
              !.using_backup = FALSE]

GrowStreamBackoffNoCap(b) == (b * 3) \div 2

\* min(self._stream_retry_backoff * 1.5, 60.0)
GrowStreamBackoff(b) == Min((b * 3) \div 2, BackoffCap)

\* min(self._restart_backoff * 2, 60.0)
GrowRestartBackoff(b) == Min(b * 2, BackoffCap)

\* the network-change test of the idle branch
NetworkChanged(last, conn) ==
    last # "" /\ conn # last /\ conn \notin {"none", "hotspot"}

ReloadDueIgnoresStop(e, elapsed) == config_url /\ elapsed

\* self._config.stream.url and not self._user_stopped, and
\* now - self._last_stream_attempt > self._stream_retry_backoff
ReloadDue(e, elapsed) == config_url /\ ~e.user_stopped /\ elapsed

FailoverDueLate(failures, using) ==
    config_backup_url /\ failures > _FAILOVER_THRESHOLD /\ ~using

\* backup and self._stream_failures >= _FAILOVER_THRESHOLD and not self._using_backup
FailoverDue(failures, using) ==
    config_backup_url /\ failures >= _FAILOVER_THRESHOLD /\ ~using

InitHealthVars(url, backup) ==
    /\ hpc = "sleep"
    /\ alive = TRUE
    /\ restart_backoff = RestartFloor
    /\ stream_retry_backoff = StreamRetryFloor
    /\ last_stream_attempt = 0
    /\ stream_failures = 0
    /\ using_backup = FALSE
    /\ user_stopped = FALSE
    /\ last_connection_type = ""
    /\ config_url = url
    /\ config_backup_url = backup
    /\ use_url = "none"
    /\ cycle = 0
    /\ streakClean = TRUE
    /\ lastReset = "none"
    /\ hstep = "init"
    /\ lastWait = 0
    /\ retry_off = "no"

\* The player process exits on its own.
process_exits ==
    /\ alive
    /\ alive' = FALSE
    /\ lastReset' = "none"
    /\ UNCHANGED <<hpc, restart_backoff, stream_retry_backoff, last_stream_attempt,
                   stream_failures, using_backup, user_stopped,
                   last_connection_type, config_url, config_backup_url, use_url,
                   cycle, streakClean>>
    /\ hstep' = "process_exits"
    /\ UNCHANGED retry_off
    /\ UNCHANGED lastWait
    /\ HealthFrame

\* asyncio.sleep(5) returns: the process is checked with is_alive_sync().
health_wake ==
    /\ hpc = "sleep"
    /\ hpc' = IF alive THEN "ping" ELSE "restart_wait"
    /\ lastReset' = "none"
    /\ UNCHANGED <<alive, restart_backoff, stream_retry_backoff,
                   last_stream_attempt, stream_failures, using_backup,
                   user_stopped, last_connection_type, config_url,
                   config_backup_url, use_url, cycle, streakClean>>
    /\ hstep' = "health_wake"
    /\ UNCHANGED retry_off
    /\ UNCHANGED lastWait
    /\ HealthFrame

\* The IPC ping returns (only a running process answers it); on failure the
\* process is killed and the channel disconnected before the backoff sleep.
health_ping(ok) ==
    /\ hpc = "ping"
    /\ (ok => alive)
    /\ hpc' = IF ok THEN "status" ELSE "restart_wait"
    /\ alive' = IF ok THEN alive ELSE FALSE
    /\ lastReset' = "none"
    /\ UNCHANGED <<restart_backoff, stream_retry_backoff, last_stream_attempt,
                   stream_failures, using_backup, user_stopped,
                   last_connection_type, config_url, config_backup_url, use_url,
                   cycle, streakClean>>
    /\ hstep' = "health_ping"
    /\ UNCHANGED retry_off
    /\ lastWait' = IF ok THEN 0 ELSE lastWait
    /\ HealthFrame

\* asyncio.sleep(self._restart_backoff) returns: the backoff is doubled and
\* start() is called.
health_restart_backoff ==
    /\ hpc = "restart_wait"
    /\ hpc' = "starting"
    /\ restart_backoff' = GrowRestartBackoff(restart_backoff)
    /\ lastReset' = "none"
    /\ UNCHANGED <<alive, stream_retry_backoff, last_stream_attempt,
                   stream_failures, using_backup, user_stopped,
                   last_connection_type, config_url, config_backup_url, use_url,
                   cycle, streakClean>>
    /\ hstep' = "health_restart_backoff"
    /\ UNCHANGED retry_off
    /\ lastWait' = restart_backoff
    /\ HealthFrame

\* start() returns (the backoff goes back to its floor) or raises out of the
\* health loop, which only catches CancelledError there.
health_start(ok) ==
    /\ hpc = "starting"
    /\ hpc' = IF ok THEN "sleep" ELSE "crashed"
    /\ alive' = ok
    /\ restart_backoff' = IF ok THEN RestartFloor ELSE restart_backoff
    /\ lastReset' = "none"
    /\ UNCHANGED <<stream_retry_backoff, last_stream_attempt, stream_failures,
                   using_backup, user_stopped, last_connection_type, config_url,
                   config_backup_url, use_url, cycle, streakClean>>
    /\ hstep' = "health_start"
    /\ UNCHANGED retry_off
    /\ UNCHANGED lastWait
    /\ HealthFrame

\* get_status() returns: idle as mpv reports it (True when the query failed).
health_status(idle) ==
    /\ hpc = "status"
    /\ hpc' = IF idle THEN "overlay" ELSE "remove_overlay"
    /\ lastReset' = "none"
    /\ UNCHANGED <<alive, restart_backoff, stream_retry_backoff,
                   last_stream_attempt, stream_failures, using_backup,
                   user_stopped, last_connection_type, config_url,
                   config_backup_url, use_url, cycle, streakClean>>
    /\ hstep' = "health_status"
    /\ UNCHANGED retry_off
    /\ UNCHANGED lastWait
    /\ HealthFrame

\* Idle branch from the return of set_overlay to the suspension in
\* load_stream (or to the end of the iteration when nothing is reloaded).
\*   overlayOk: set_overlay returned; otherwise the network check is skipped
\*   conn:      the connection type _get_network_info reported
\*   elapsed:   now - self._last_stream_attempt > self._stream_retry_backoff
health_idle(overlayOk, conn, elapsed) ==
    /\ hpc = "overlay"
    /\ LET changed == overlayOk /\ NetworkChanged(last_connection_type, conn)
           e1 == IF changed THEN ResetStreamRetry(Engine) ELSE Engine
           e2 == IF overlayOk THEN [e1 EXCEPT !.last_connection_type = conn] ELSE e1
           reload == ReloadDue(e2, elapsed)
           failures == e2.stream_failures + 1
           failover == FailoverDue(failures, e2.using_backup)
           target == IF failover \/ (e2.using_backup /\ config_backup_url)
                     THEN "backup" ELSE "primary"
           e3 == [e2 EXCEPT !.stream_failures = failures,
                            !.using_backup = (@ \/ failover),
                            !.last_stream_attempt = 1,
                            !.user_stopped = FALSE]
           c1 == IF changed THEN 0 ELSE cycle
       IN  /\ reload => e2.stream_failures < MaxFailures
           /\ SetEngine(IF reload THEN e3 ELSE e2)
           /\ hpc' = IF reload THEN "loading" ELSE "sleep"
           /\ use_url' = IF reload THEN target ELSE use_url
           /\ cycle' = IF reload THEN c1 + 1 ELSE c1
           /\ streakClean' = (changed \/ streakClean)
           /\ lastReset' = IF ~changed THEN "none"
                           ELSE IF e1 = Engine THEN "noop" ELSE "changed"
           /\ retry_off' = IF changed /\ retry_off = "operator"
                            THEN "network" ELSE retry_off
    /\ UNCHANGED <<alive, config_url, config_backup_url>>
    /\ hstep' = "health_idle"
    /\ UNCHANGED lastWait
    /\ HealthFrame

\* load_stream returns (the backoff grows) or raises (logged, nothing else).
health_load_done(ok) ==
    /\ hpc = "loading"
    /\ hpc' = "sleep"
    /\ stream_retry_backoff' =
          IF ok THEN GrowStreamBackoff(stream_retry_backoff) ELSE stream_retry_backoff
    /\ lastReset' = "none"
    /\ UNCHANGED <<alive, restart_backoff, last_stream_attempt, stream_failures,
                   using_backup, user_stopped, last_connection_type, config_url,
                   config_backup_url, use_url, cycle, streakClean>>
    /\ hstep' = "health_load_done"
    /\ UNCHANGED retry_off
    /\ UNCHANGED lastWait
    /\ HealthFrame

health_not_idle_clears_backup(conn) ==
    /\ hpc = "remove_overlay"
    /\ hpc' = "sleep"
    /\ stream_retry_backoff' = StreamRetryFloor
    /\ stream_failures' = 0
    /\ using_backup' = FALSE
    /\ last_connection_type' = conn
    /\ cycle' = 0
    /\ streakClean' = TRUE
    /\ lastReset' = "none"
    /\ UNCHANGED <<alive, restart_backoff, last_stream_attempt,
                   user_stopped, config_url, config_backup_url, use_url>>
    /\ hstep' = "health_not_idle"
    /\ UNCHANGED retry_off
    /\ UNCHANGED lastWait
    /\ HealthFrame

\* Not-idle branch after remove_overlay returned or raised: backoff and
\* failure counter go back to their floor, the connection type is recorded.
health_not_idle(conn) ==
    /\ hpc = "remove_overlay"
    /\ hpc' = "sleep"
    /\ stream_retry_backoff' = StreamRetryFloor
    /\ stream_failures' = 0
    /\ last_connection_type' = conn
    /\ cycle' = 0
    /\ streakClean' = ~using_backup
    /\ lastReset' = "none"
    /\ UNCHANGED <<alive, restart_backoff, last_stream_attempt, using_backup,
                   user_stopped, config_url, config_backup_url, use_url>>
    /\ hstep' = "health_not_idle"
    /\ UNCHANGED retry_off
    /\ UNCHANGED lastWait
    /\ HealthFrame

\* reset_stream_retry() called by the web layer (stream URL, network or
\* static-IP change).
reset_stream_retry ==
    /\ SetEngine(ResetStreamRetry(Engine))
    /\ cycle' = 0
    /\ streakClean' = TRUE
    /\ lastReset' = IF ResetStreamRetry(Engine) = Engine THEN "noop" ELSE "changed"
    /\ UNCHANGED <<hpc, alive, config_url, config_backup_url, use_url>>
    /\ hstep' = "reset_stream_retry"
    /\ retry_off' = "no"
    /\ UNCHANGED lastWait
    /\ HealthFrame

\* stop_stream(): the flag is set before the command is sent.
stop_stream ==
    /\ ~user_stopped
    /\ user_stopped' = TRUE
    /\ lastReset' = "none"
    /\ UNCHANGED <<hpc, alive, restart_backoff, stream_retry_backoff,
                   last_stream_attempt, stream_failures, using_backup,
                   last_connection_type, config_url, config_backup_url, use_url,
                   cycle, streakClean>>
    /\ hstep' = "stop_stream"
    /\ retry_off' = "operator"
    /\ UNCHANGED lastWait
    /\ HealthFrame

\* load_stream(url) called from outside the health loop.
load_stream ==
    /\ user_stopped
    /\ user_stopped' = FALSE
    /\ lastReset' = "none"
    /\ UNCHANGED <<hpc, alive, restart_backoff, stream_retry_backoff,
                   last_stream_attempt, stream_failures, using_backup,
                   last_connection_type, config_url, config_backup_url, use_url,
                   cycle, streakClean>>
    /\ hstep' = "load_stream"
    /\ retry_off' = "no"
    /\ UNCHANGED lastWait
    /\ HealthFrame

\* restart(): stop (the health task is cancelled wherever it is) and start
\* under the lifecycle lock; a failed spawn leaves no process and no health task.
restart(ok) ==
    /\ hpc' = IF ok THEN "sleep" ELSE "crashed"
    /\ alive' = ok
    /\ restart_backoff' = IF ok THEN RestartFloor ELSE restart_backoff
    /\ lastReset' = "none"
    /\ UNCHANGED <<stream_retry_backoff, last_stream_attempt, stream_failures,
                   using_backup, user_stopped, last_connection_type, config_url,
                   config_backup_url, use_url, cycle, streakClean>>
    /\ hstep' = "restart"
    /\ UNCHANGED retry_off
    /\ lastWait' = 0
    /\ HealthFrame

\* ---------------------------------------------------------------------------
\* Discovery scan (PCOClient._find_best_live_plan)
\* ---------------------------------------------------------------------------

\* Python's None for ids and datetimes; real ids and instants are positive.
None == 0

\* best = None, best_live_start = datetime.min
NoBest ==
    [plan_id |-> None, st_id |-> None, live_start_at |-> None,
     service_start |-> None, planned_end |-> None]

IsLaterOrEqual(live_start_at, best_live_start) == live_start_at >= best_live_start

\* live_start_at > best_live_start
IsLater(live_start_at, best_live_start) == live_start_at > best_live_start

\* The loop over the plans of one service type.  A plan's live is None when
\* its /live poll is not 200, has no current_item_time, no matching ItemTime,
\* no live_start_at, or raised: the loop continues with the next plan.
RECURSIVE ScanPlans(_, _, _, _)
ScanPlans(stid, plans, j, best) ==
    IF j > Len(plans) THEN best
    ELSE LET p == plans[j] IN
         IF p.kind = "malformed" THEN best
         ELSE IF p.live # None /\ IsLater(p.live, best.live_start_at)
         THEN ScanPlans(stid, plans, j + 1,
                        [plan_id |-> p.id, st_id |-> stid, live_start_at |-> p.live,
                         service_start |-> p.service_start,
                         planned_end |-> p.planned_end])
         ELSE ScanPlans(stid, plans, j + 1, best)

\* The loop over the service types: 401/403 on a plan list abandons the scan
\* with None, any other non-200 skips the service type.
RECURSIVE ScanServiceTypes(_, _, _)
ScanServiceTypes(sts, i, best) ==
    IF i > Len(sts) THEN best
    ELSE IF sts[i].status \in {401, 403} THEN NoBest
    ELSE IF sts[i].status # 200 THEN ScanServiceTypes(sts, i + 1, best)
    ELSE ScanServiceTypes(sts, i + 1, ScanPlans(sts[i].st, sts[i].plans, 1, best))

\* _find_best_live_plan: the returned tuple (NoBest for None).
FindBestLivePlan(sts) == ScanServiceTypes(sts, 1, NoBest)

\* _find_best_live_plan sets self._credential_error on a 401/403 plan list.
ScanAuthFailed(sts) == \E i \in 1..Len(sts) : sts[i].status \in {401, 403}

\* live_start_at instants the remote service reports.
LiveTimes == {1, 2}

\* What the scan learns of one listed plan: a well-formed entry whose live
\* poll yields a live_start_at or nothing usable (non-200, no current item
\* time, no timestamp, an exception: all "continue"), or an entry that makes
\* the plan loop raise (no "id"), which ends the service type's loop.
PlanAnswers ==
    {[kind |-> "ok", live |-> v] : v \in {None} \cup LiveTimes}
      \cup {[kind |-> "malformed", live |-> None]}

PlanAt(i, j, a) ==
    [id |-> (i - 1) * MaxPlans + j, kind |-> a.kind, live |-> a.live,
     service_start |-> 10 * i + j, planned_end |-> 100 * i + j]

\* The answer for service type i: a status and, for 200, up to MaxPlans plans.
StAnswers(i) ==
    UNION {{[st |-> i, status |-> 200,
             plans |-> [j \in 1..m |-> PlanAt(i, j, f[j])]] :
               f \in [1..m -> PlanAnswers]} : m \in 0..MaxPlans}
      \cup {[st |-> i, status |-> code, plans |-> << >>] : code \in {401, 403, 500}}

RECURSIVE ScanInputsOfLen(_)
ScanInputsOfLen(n) ==
    IF n = 0 THEN {<< >>}
    ELSE {Append(g, a) : g \in ScanInputsOfLen(n - 1), a \in StAnswers(n)}

\* What one scan can meet: the service types of the folder in order (none
\* when the folder lookup failed), each with its answer.
ScanInputs == UNION {ScanInputsOfLen(n) : n \in 0..MaxServiceTypes}

InitScanVars ==
    /\ scan_input = << >>
    /\ scan_result = NoBest
    /\ scan_done = FALSE

\* One call of _find_best_live_plan on the answers drawn initially.
find_best_live_plan ==
    /\ ~scan_done
    /\ scan_result' = FindBestLivePlan(scan_input)
    /\ scan_done' = TRUE
    /\ UNCHANGED scan_input
    /\ ScanFrame

\* ---------------------------------------------------------------------------
\* Live-plan tracker (PCOClient.get_live_status and what it calls)
\* ---------------------------------------------------------------------------

_TRACKING_FULL_SCAN_INTERVAL == 60

\* The clock advances in half scan intervals.
ClockStep == _TRACKING_FULL_SCAN_INTERVAL \div 2

\* time.time() when the tracker is constructed (any instant at least one scan
\* interval after the epoch).
ClockStart == _TRACKING_FULL_SCAN_INTERVAL

\* LiveStatus, reduced to the fields the tracker itself reads, and its message.
LiveStatus(is_live, finished, message) ==
    [is_live |-> is_live, finished |-> finished, message |-> message]

InitializingStatus == LiveStatus(FALSE, FALSE, "Initializing...")
\* "No folder ID configured" or "No service type configured"
NoConfigStatus == LiveStatus(FALSE, FALSE, "No folder ID configured")
ApiErrorStatus == LiveStatus(FALSE, FALSE, "Live API error")
PlanNotFoundStatus == LiveStatus(FALSE, FALSE, "Plan not found")
NotLiveStatus == LiveStatus(FALSE, FALSE, "Not live")
LiveNoItemTimeStatus == LiveStatus(TRUE, FALSE, "Live")
PreServiceStatus == LiveStatus(TRUE, FALSE, "Pre-service")
ActiveItemStatus == LiveStatus(TRUE, FALSE, "")
FinishedStatus == LiveStatus(TRUE, TRUE, "")
UpcomingStatus == LiveStatus(FALSE, FALSE, "Next")
NoUpcomingStatus == LiveStatus(FALSE, FALSE, "No upcoming plans")

\* What the live endpoint can answer to one poll:
\*   http_error       the request failed or raise_for_status raised
\*   not_found        404
\*   malformed        a body whose parsing raises before the latch is touched
\*   no_cit           no current-item-time reference
\*   cit_no_obj       a reference whose ItemTime is not included
\*   end_marker       the current item resolves to a non-Item
\*   pre_service      an ItemTime without an Item
\*   active           the current item resolves to an Item (whatever its
\*                    service_position: the latch is set before it is read)
\*   active_malformed an active item whose status cannot be built (raises)
PollAnswers ==
    {"http_error", "not_found", "malformed", "no_cit", "cit_no_obj",
     "end_marker", "pre_service", "active", "active_malformed"}

Parsed(raised, status, latch) ==
    [raised |-> raised, status |-> status, latch |-> latch]

ParseLiveNoCitNotLive(resp, latch) ==
    CASE resp = "malformed" -> Parsed(TRUE, NotLiveStatus, latch)
      [] resp = "no_cit" -> Parsed(FALSE, NotLiveStatus, latch)
      [] resp = "cit_no_obj" -> Parsed(FALSE, LiveNoItemTimeStatus, latch)
      [] resp = "end_marker" -> Parsed(FALSE, FinishedStatus, latch)
      [] resp = "pre_service" -> Parsed(FALSE, PreServiceStatus, latch)
      [] resp = "active" -> Parsed(FALSE, ActiveItemStatus, TRUE)
      [] resp = "active_malformed" -> Parsed(TRUE, NotLiveStatus, TRUE)

ParseLiveNoCitFinished(resp, latch) ==
    CASE resp = "malformed" -> Parsed(TRUE, NotLiveStatus, latch)
      [] resp = "no_cit" -> Parsed(FALSE, FinishedStatus, latch)
      [] resp = "cit_no_obj" -> Parsed(FALSE, LiveNoItemTimeStatus, latch)
      [] resp = "end_marker" -> Parsed(FALSE, FinishedStatus, latch)
      [] resp = "pre_service" -> Parsed(FALSE, PreServiceStatus, latch)
      [] resp = "active" -> Parsed(FALSE, ActiveItemStatus, TRUE)
      [] resp = "active_malformed" -> Parsed(TRUE, NotLiveStatus, TRUE)

\* _parse_live_response (with resp.json() before it): whether it raises, the
\* status it returns if not, and self._seen_active_item afterwards.
ParseLive(resp, latch) ==
    CASE resp = "malformed" -> Parsed(TRUE, NotLiveStatus, latch)
      [] resp = "no_cit" ->
            IF latch THEN Parsed(FALSE, FinishedStatus, latch)
            ELSE Parsed(FALSE, NotLiveStatus, latch)
      [] resp = "cit_no_obj" -> Parsed(FALSE, LiveNoItemTimeStatus, latch)
      [] resp = "end_marker" -> Parsed(FALSE, FinishedStatus, latch)
      [] resp = "pre_service" -> Parsed(FALSE, PreServiceStatus, latch)
      [] resp = "active" -> Parsed(FALSE, ActiveItemStatus, TRUE)
      [] resp = "active_malformed" -> Parsed(TRUE, NotLiveStatus, TRUE)

\* _poll_live
PollLive(resp, latch) ==
    CASE resp = "not_found" -> Parsed(FALSE, PlanNotFoundStatus, latch)
      [] resp = "http_error" -> Parsed(FALSE, ApiErrorStatus, latch)
      [] OTHER -> ParseLive(resp, latch)

LiveNotFinished(status) == status.is_live /\ ~status.finished

\* "status.is_live or status.finished"
LiveOrFinished(status) == status.is_live \/ status.finished

RescanDueAlways(now, last) == TRUE

RescanDueStrict(now, last) == now - last > _TRACKING_FULL_SCAN_INTERVAL

\* "now - self._last_full_scan >= _TRACKING_FULL_SCAN_INTERVAL"
RescanDue(now, last) == now - last >= _TRACKING_FULL_SCAN_INTERVAL

SwitchDueOnTie(better, plan_id, live_start_at) ==
    /\ better # NoBest
    /\ better.plan_id # plan_id
    /\ better.live_start_at # None
    /\ live_start_at # None
    /\ better.live_start_at >= live_start_at

\* The condition under which the periodic rescan switches the lock.
SwitchDue(better, plan_id, live_start_at) ==
    /\ better # NoBest
    /\ better.plan_id # plan_id
    /\ better.live_start_at # None
    /\ live_start_at # None
    /\ better.live_start_at > live_start_at

\* What a scan made by the tracker can meet: two service types, each
\* answering with an error or with one plan.
TrackerStAnswers(i) ==
    {[st |-> i, status |-> 200, plans |-> <<PlanAt(i, 1, a)>>] : a \in PlanAnswers}
      \cup {[st |-> i, status |-> code, plans |-> << >>] : code \in {403, 500}}

TrackerScans == {<<a, b>> : a \in TrackerStAnswers(1), b \in TrackerStAnswers(2)}

InitTrackerVars ==
    /\ tpc = "idle"
    /\ locked_plan_id = None
    /\ locked_st_id = None
    /\ locked_service_start = None
    /\ locked_planned_end = None
    /\ locked_live_start_at = None
    /\ seen_active_item = FALSE
    /\ last_full_scan = 0
    /\ credential_error = ""
    /\ cached_status = InitializingStatus
    /\ configured = TRUE
    /\ clock = ClockStart
    /\ t_status = InitializingStatus
    /\ t_best = NoBest
    /\ returned = InitializingStatus
    /\ nPolls = 0
    /\ nScans = 0
    /\ startedLocked = FALSE
    /\ lockAtStart = None
    /\ lockStateAtStart = <<<<None, None, None, None, None>>, FALSE>>
    /\ fastLive = FALSE
    /\ elapsedAtPoll = 0
    /\ switched = FALSE
    /\ rescanInput = << >>
    /\ lastResp = "none"
    /\ lastRescanAt = None
    /\ rescanGapOk = TRUE

lockFields == <<locked_plan_id, locked_st_id, locked_service_start,
                locked_planned_end, locked_live_start_at>>

callHistory == <<startedLocked, lockAtStart, lockStateAtStart, fastLive,
                 elapsedAtPoll, switched, rescanInput>>

rescanHistory == <<lastRescanAt, rescanGapOk>>

\* get_live_status returns status through its success path (the locals of the
\* call are gone: they take their initial values again).
ReturnStatus(status) ==
    /\ cached_status' = status
    /\ credential_error' = ""
    /\ returned' = status
    /\ tpc' = "idle"
    /\ t_status' = InitializingStatus
    /\ t_best' = NoBest

\* An exception reaches get_live_status: the cached status is returned.
ReturnCached ==
    /\ returned' = cached_status
    /\ tpc' = "idle"
    /\ t_status' = InitializingStatus
    /\ t_best' = NoBest
    /\ UNCHANGED <<cached_status, credential_error>>

\* Time passes.  A call reads the clock at most once (after its first poll),
\* so time that passes during a call is time that passed before or after it.
tick ==
    /\ tpc = "idle"
    /\ clock < ClockStart + MaxTicks * ClockStep
    /\ clock' = clock + ClockStep
    /\ UNCHANGED <<tpc, lockFields, seen_active_item, last_full_scan,
                   credential_error, cached_status, configured, t_status, t_best,
                   returned, nPolls, nScans, callHistory, lastResp,
                   rescanHistory>>
    /\ TrackerFrame

\* update_credentials: synchronous, takes no lock, can run while a call is
\* suspended at a remote request.
update_credentials(ok) ==
    /\ configured' = ok
    /\ locked_plan_id' = None
    /\ locked_st_id' = None
    /\ locked_service_start' = None
    /\ locked_planned_end' = None
    /\ locked_live_start_at' = None
    /\ seen_active_item' = FALSE
    /\ credential_error' = ""
    /\ UNCHANGED <<tpc, last_full_scan, cached_status, clock, t_status, t_best,
                   returned, nPolls, nScans, callHistory, lastResp,
                   rescanHistory>>
    /\ TrackerFrame

\* get_live_status up to its first remote request.
GetLiveStatusCall ==
    /\ tpc = "idle"
    /\ nPolls' = 0
    /\ nScans' = 0
    /\ lockAtStart' = locked_plan_id
    /\ lockStateAtStart' = <<lockFields, seen_active_item>>
    /\ fastLive' = FALSE
    /\ elapsedAtPoll' = 0
    /\ switched' = FALSE
    /\ rescanInput' = << >>
    /\ IF ~configured
       THEN /\ cached_status' = NoConfigStatus
            /\ returned' = NoConfigStatus
            /\ startedLocked' = FALSE
            /\ UNCHANGED tpc
       ELSE /\ startedLocked' = (locked_plan_id # None /\ locked_st_id # None)
            /\ tpc' = IF locked_plan_id # None /\ locked_st_id # None
                      THEN "fast_poll" ELSE "discover"
            /\ UNCHANGED <<cached_status, returned>>
    /\ UNCHANGED <<lockFields, seen_active_item, last_full_scan, credential_error,
                   configured, clock, t_status, t_best, lastResp,
                   rescanHistory>>

get_live_status == GetLiveStatusCall /\ TrackerFrame

\* The fast-path poll of the locked plan answers.
fast_poll_done(resp) ==
    /\ tpc = "fast_poll"
    /\ nPolls' = nPolls + 1
    /\ lastResp' = resp
    /\ LET r == PollLive(resp, seen_active_item) IN
       IF r.raised
       THEN /\ seen_active_item' = r.latch
            /\ ReturnCached
            /\ UNCHANGED <<lockFields, last_full_scan, fastLive, elapsedAtPoll,
                           rescanHistory>>
       ELSE IF LiveOrFinished(r.status)
       THEN /\ seen_active_item' = r.latch
            /\ fastLive' = TRUE
            /\ elapsedAtPoll' = clock - last_full_scan
            /\ IF RescanDue(clock, last_full_scan)
               THEN /\ last_full_scan' = clock
                    /\ tpc' = "rescan"
                    /\ t_status' = r.status
                    /\ lastRescanAt' = clock
                    /\ rescanGapOk' =
                          (rescanGapOk /\
                             (lastRescanAt = None \/
                              clock - lastRescanAt >= _TRACKING_FULL_SCAN_INTERVAL))
                    /\ UNCHANGED <<cached_status, credential_error, returned,
                                   t_best>>
               ELSE /\ ReturnStatus(r.status)
                    /\ UNCHANGED <<last_full_scan, rescanHistory>>
            /\ UNCHANGED lockFields
       ELSE /\ locked_plan_id' = None
            /\ locked_st_id' = None
            /\ locked_service_start' = None
            /\ locked_planned_end' = None
            /\ locked_live_start_at' = None
            /\ seen_active_item' = FALSE
            /\ tpc' = "discover"
            /\ UNCHANGED <<last_full_scan, cached_status, credential_error,
                           returned, t_status, t_best, fastLive, elapsedAtPoll,
                           rescanHistory>>
    /\ UNCHANGED <<configured, clock, nScans, startedLocked, lockAtStart,
                   lockStateAtStart, switched, rescanInput>>
    /\ TrackerFrame

\* The periodic full scan made while locked has run.
rescan_done(sts) ==
    /\ tpc = "rescan"
    /\ nScans' = nScans + 1
    /\ rescanInput' = sts
    /\ LET better == FindBestLivePlan(sts) IN
       IF SwitchDue(better, locked_plan_id, locked_live_start_at)
       THEN /\ locked_plan_id' = better.plan_id
            /\ locked_st_id' = better.st_id
            /\ locked_live_start_at' = better.live_start_at
            /\ locked_service_start' = better.service_start
            /\ locked_planned_end' = better.planned_end
            /\ seen_active_item' = FALSE
            /\ switched' = TRUE
            /\ t_best' = better
            /\ tpc' = "switch_poll"
            /\ credential_error' =
                  IF ScanAuthFailed(sts) THEN "Authentication failed"
                  ELSE credential_error
            /\ UNCHANGED <<cached_status, returned, t_status>>
       ELSE /\ ReturnStatus(t_status)
            /\ UNCHANGED <<lockFields, seen_active_item, switched>>
    /\ UNCHANGED <<last_full_scan, configured, clock, nPolls,
                   startedLocked, lockAtStart, lockStateAtStart, fastLive,
                   elapsedAtPoll, lastResp, rescanHistory>>
    /\ TrackerFrame

\* The poll of the plan the rescan switched to answers.
switch_poll_done(resp) ==
    /\ tpc = "switch_poll"
    /\ nPolls' = nPolls + 1
    /\ lastResp' = resp
    /\ LET r == PollLive(resp, seen_active_item) IN
       /\ seen_active_item' = r.latch
       /\ IF r.raised THEN ReturnCached ELSE ReturnStatus(r.status)
    /\ UNCHANGED <<lockFields, last_full_scan, configured, clock, nScans,
                   callHistory, rescanHistory>>
    /\ TrackerFrame

\* The discovery scan of _discover_and_poll has run.
discover_done(sts) ==
    /\ tpc = "discover"
    /\ nScans' = nScans + 1
    /\ credential_error' =
          IF ScanAuthFailed(sts) THEN "Authentication failed" ELSE credential_error
    /\ LET best == FindBestLivePlan(sts) IN
       /\ t_best' = best
       /\ IF best # NoBest
          THEN /\ locked_service_start' = best.service_start
               /\ locked_planned_end' = best.planned_end
               /\ locked_live_start_at' = best.live_start_at
               /\ tpc' = "confirm_poll"
          ELSE /\ tpc' = "upcoming"
               /\ UNCHANGED <<locked_service_start, locked_planned_end,
                              locked_live_start_at>>
    /\ UNCHANGED <<locked_plan_id, locked_st_id, seen_active_item, last_full_scan,
                   cached_status, configured, clock, t_status, returned, nPolls,
                   callHistory, lastResp, rescanHistory>>
    /\ TrackerFrame

\* The confirming poll of the discovered plan answers.
confirm_poll_done(resp) ==
    /\ tpc = "confirm_poll"
    /\ nPolls' = nPolls + 1
    /\ lastResp' = resp
    /\ LET r == PollLive(resp, seen_active_item) IN
       /\ seen_active_item' = r.latch
       /\ IF r.raised
          THEN /\ ReturnCached
               /\ UNCHANGED <<lockFields, last_full_scan>>
          ELSE IF LiveOrFinished(r.status)
          THEN /\ locked_plan_id' = t_best.plan_id
               /\ locked_st_id' = t_best.st_id
               /\ last_full_scan' = clock
               /\ ReturnStatus(r.status)
               /\ UNCHANGED <<locked_service_start, locked_planned_end,
                              locked_live_start_at>>
          ELSE /\ locked_service_start' = None
               /\ locked_planned_end' = None
               /\ locked_live_start_at' = None
               /\ tpc' = "upcoming"
               /\ UNCHANGED <<locked_plan_id, locked_st_id, last_full_scan,
                              cached_status, credential_error, returned,
                              t_status, t_best>>
    /\ UNCHANGED <<configured, clock, nScans, callHistory, rescanHistory>>
    /\ TrackerFrame

\* _find_upcoming_plan has run: a plan to announce, none, or a payload that
\* makes it raise.
upcoming_done(out) ==
    /\ tpc = "upcoming"
    /\ CASE out = "next" -> ReturnStatus(UpcomingStatus)
         [] out = "none" -> ReturnStatus(NoUpcomingStatus)
         [] out = "raise" -> ReturnCached
    /\ UNCHANGED <<lockFields, seen_active_item, last_full_scan, configured, clock,
                   nPolls, nScans, callHistory, lastResp, rescanHistory>>
    /\ TrackerFrame

\* ---------------------------------------------------------------------------
\* Circuit breaker (PCOClient._record_failure, as the specification and
\* TestCircuitBreaker describe it)
\* ---------------------------------------------------------------------------

BreakerThreshold == 5

BreakerCap == 300

RECURSIVE Pow2(_)
Pow2(n) == IF n = 0 THEN 1 ELSE 2 * Pow2(n - 1)

\* The window opened by the n-th consecutive failure, in seconds.
BreakerWindow(n) == Min(Pow2(n - BreakerThreshold), BreakerCap)

InitBreakerVars ==
    /\ consecutive_failures = 0
    /\ backoff_until = 0

\* _record_failure(): one more consecutive failure; from the threshold on, a
\* backoff window is opened.  Failures are recorded between calls.
record_failure ==
    /\ tpc = "idle"
    /\ consecutive_failures < MaxRecorded
    /\ consecutive_failures' = consecutive_failures + 1
    /\ backoff_until' =
          IF consecutive_failures + 1 >= BreakerThreshold
          THEN clock + BreakerWindow(consecutive_failures + 1)
          ELSE backoff_until
    /\ BreakerFrame

\* ---------------------------------------------------------------------------
\* Overlay loop (OverlayUpdater.run)
\* ---------------------------------------------------------------------------

\* The smallest poll interval the configuration lets through.
MinPollInterval == 2

PollNeverSuppressed(error) == FALSE

\* "if self._pco.credential_error"
PollSuppressed(error) == error # ""

InitOverlayVars ==
    /\ opc = "init"
    /\ o_running = FALSE
    /\ o_poll_interval = 0
    /\ seconds_since_poll = 0
    /\ last_status = InitializingStatus
    /\ overlay_enabled = TRUE
    /\ pushed = InitializingStatus
    /\ slotSkipped = FALSE
    /\ stop_pc = "idle"
    /\ overlay_shown = FALSE

\* run() up to the first test of the loop.
overlay_run(interval) ==
    /\ opc = "init"
    /\ o_running' = TRUE
    /\ o_poll_interval' = interval
    /\ seconds_since_poll' = interval
    /\ opc' = "slot"
    /\ UNCHANGED <<last_status, overlay_enabled, pushed, slotSkipped>>
    /\ UNCHANGED <<stop_pc, overlay_shown>>
    /\ OverlayFrame

\* The poll slot of one iteration, when no poll is made: it is not due yet,
\* or it is due and the tracker reports a credential error.
overlay_slot_no_poll ==
    /\ opc = "slot"
    /\ o_running
    /\ IF seconds_since_poll >= o_poll_interval
       THEN /\ PollSuppressed(credential_error)
            /\ seconds_since_poll' = 0
            /\ slotSkipped' = TRUE
       ELSE UNCHANGED <<seconds_since_poll, slotSkipped>>
    /\ opc' = "push"
    /\ UNCHANGED <<o_running, o_poll_interval, last_status, overlay_enabled, pushed>>
    /\ UNCHANGED <<stop_pc, overlay_shown>>
    /\ OverlayFrame

\* The poll slot of one iteration, when the poll is made: get_live_status is
\* called and runs up to its first remote request.
overlay_slot_poll ==
    /\ opc = "slot"
    /\ o_running
    /\ seconds_since_poll >= o_poll_interval
    /\ ~PollSuppressed(credential_error)
    /\ tpc = "idle"
    /\ GetLiveStatusCall
    /\ opc' = "polling"
    /\ slotSkipped' = FALSE
    /\ UNCHANGED <<o_running, o_poll_interval, seconds_since_poll, last_status,
                   overlay_enabled, pushed>>
    /\ UNCHANGED <<stop_pc, overlay_shown>>
    /\ PollFrame

\* get_live_status has returned to the loop.
overlay_poll_done ==
    /\ opc = "polling"
    /\ tpc = "idle"
    /\ last_status' = returned
    /\ seconds_since_poll' = 0
    /\ opc' = "push"
    /\ UNCHANGED <<o_running, o_poll_interval, overlay_enabled, pushed, slotSkipped>>
    /\ UNCHANGED <<stop_pc, overlay_shown>>
    /\ OverlayFrame

\* The push of one iteration is issued (format_overlay and set_overlay), or
\* left out because the overlay is disabled.
overlay_push ==
    /\ opc = "push"
    /\ IF overlay_enabled
       THEN /\ pushed' = last_status
            /\ opc' = "pushing"
       ELSE /\ opc' = "sleeping"
            /\ UNCHANGED pushed
    /\ UNCHANGED <<o_running, o_poll_interval, seconds_since_poll, last_status,
                   overlay_enabled, slotSkipped>>
    /\ overlay_shown' = (overlay_enabled \/ overlay_shown)
    /\ UNCHANGED stop_pc
    /\ OverlayFrame

\* How the set_overlay call of the loop can end:
\*   ok         the engine answers success
\*   error      _send raises RuntimeError (not connected, or an error answer)
\*   timeout    _send raises asyncio.TimeoutError
\*   cancelled  _disconnect_ipc cancels the pending future of the request, so
\*              `await asyncio.wait_for(fut, ...)` raises CancelledError in the
\*              loop's task
PushResults == {"ok", "error", "timeout", "cancelled"}

\* What the handlers around the push catch: `except Exception` takes
\* RuntimeError and TimeoutError; CancelledError is a BaseException and passes it,
\* to `except asyncio.CancelledError: pass` around the whole loop.
PushCaught(result) == result # "cancelled"

\* set_overlay returns or raises.  Caught, the loop goes on to its sleep; not
\* caught, run() leaves the loop for `finally`: self._running = False and
\* remove_overlay.
overlay_push_done(result) ==
    /\ opc = "pushing"
    /\ IF PushCaught(result)
       THEN /\ opc' = "sleeping"
            /\ UNCHANGED <<o_running, overlay_shown>>
       ELSE /\ opc' = "removing"
            /\ o_running' = FALSE
            /\ overlay_shown' = FALSE
    /\ UNCHANGED <<o_poll_interval, seconds_since_poll, last_status,
                   overlay_enabled, pushed, slotSkipped>>
    /\ UNCHANGED stop_pc
    /\ OverlayFrame

\* The one-second sleep is over.
overlay_sleep_done ==
    /\ opc = "sleeping"
    /\ seconds_since_poll' = seconds_since_poll + 1
    /\ opc' = "slot"
    /\ UNCHANGED <<o_running, o_poll_interval, last_status, overlay_enabled,
                   pushed, slotSkipped>>
    /\ UNCHANGED <<stop_pc, overlay_shown>>
    /\ OverlayFrame

\* The operator switches the overlay on or off (web API).
set_overlay_enabled(on) ==
    /\ overlay_enabled' = on
    /\ UNCHANGED <<opc, o_running, o_poll_interval, seconds_since_poll,
                   last_status, pushed, slotSkipped>>
    /\ UNCHANGED <<stop_pc, overlay_shown>>
    /\ OverlayFrame

CancelSkipsFinally(at) == "done"

\* Where a cancelled task goes: a task that has entered run() takes the
\* CancelledError at its await, passes `except asyncio.CancelledError` and calls
\* remove_overlay in `finally`; a task that never ran just ends.
CancelTarget(at) == IF at = "init" THEN "done" ELSE "removing"

\* The loop is suspended at an await (or has not run, or is over).
OverlaySuspended ==
    \/ opc \in {"init", "pushing", "sleeping", "removing", "done"}
    \/ (opc = "polling" /\ tpc # "idle")

\* stop(): self._running = False; the task, unless done, is cancelled and
\* awaited.  A get_live_status call the task was suspended in is cancelled
\* with it (CancelledError is no Exception, no handler of the tracker takes it).
overlay_stop ==
    /\ stop_pc = "idle"
    /\ OverlaySuspended
    /\ o_running' = FALSE
    /\ opc' = IF opc \in {"removing", "done"} THEN "done" ELSE CancelTarget(opc)
    /\ overlay_shown' = IF opc \in {"init", "removing", "done"} THEN overlay_shown
                        ELSE (CancelTarget(opc) # "removing" /\ overlay_shown)
    /\ stop_pc' = "awaiting"
    /\ IF opc = "polling"
       THEN /\ tpc' = "idle"
            /\ t_status' = InitializingStatus
            /\ t_best' = NoBest
       ELSE UNCHANGED <<tpc, t_status, t_best>>
    /\ UNCHANGED <<lockFields, seen_active_item, last_full_scan, credential_error,
                   cached_status, configured, clock, returned, nPolls, nScans,
                   callHistory, lastResp, rescanHistory>>
    /\ UNCHANGED <<o_poll_interval, seconds_since_poll, last_status,
                   overlay_enabled, pushed, slotSkipped>>
    /\ PollFrame

\* remove_overlay in `finally` returns or raises: run() is over.
overlay_remove_done(ok) ==
    /\ opc = "removing"
    /\ opc' = "done"
    /\ UNCHANGED <<o_running, o_poll_interval, seconds_since_poll, last_status,
                   overlay_enabled, pushed, slotSkipped, stop_pc, overlay_shown>>
    /\ OverlayFrame

\* `await self._task` in stop() returns: the task is done.
overlay_stop_returns ==
    /\ stop_pc = "awaiting"
    /\ opc = "done"
    /\ stop_pc' = "returned"
    /\ UNCHANGED <<opc, o_running, o_poll_interval, seconds_since_poll,
                   last_status, overlay_enabled, pushed, slotSkipped,
                   overlay_shown>>
    /\ OverlayFrame

\* start_task() after a stop (web API, restart of the overlay): a new task.
overlay_start_task ==
    /\ stop_pc = "returned"
    /\ stop_pc' = "idle"
    /\ opc' = "init"
    /\ UNCHANGED <<o_running, o_poll_interval, seconds_since_poll, last_status,
                   overlay_enabled, pushed, slotSkipped, overlay_shown>>
    /\ OverlayFrame

\* ---------------------------------------------------------------------------
\* Lifecycle: start, stop and restart under self._lifecycle_lock
\* ---------------------------------------------------------------------------

LcFree == 0

PendingKept(pend) == pend

\* _disconnect_ipc: every pending future is cancelled, self._pending.clear()
PendingAfterDisconnect(pend) == FALSE

\* Tasks that call start(), stop() or restart(): main and the web handlers.
LcOperators == 1..NOperators

\* The health task (self._monitor_task), which calls start().
HealthTask == NOperators + 1

LcCallers == LcOperators \cup {HealthTask}

\* The positions inside the `async with self._lifecycle_lock` blocks.
LcBody == {"stop_cancel", "stop_await", "stop_quit", "stop_disconnect",
           "stop_kill",
           "restart_sleep", "start_spawn", "start_connect"}

\* Where a caller is when it is in no lifecycle operation.
LcRest(c) == IF c = HealthTask THEN "loop" ELSE "idle"

CanAcquireAlways(c) == TRUE

\* asyncio.Lock.acquire returns once the lock is not held.
CanAcquire(c) == lifecycle_lock = LcFree

InitLifecycleVars ==
    /\ lifecycle_lock = LcFree
    /\ lc_pc = [c \in LcCallers |-> IF c = HealthTask THEN "done" ELSE "idle"]
    /\ lc_op = [c \in LcCallers |-> "none"]
    /\ stopping = FALSE
    /\ process = FALSE
    /\ lc_connected = FALSE
    /\ lc_pending = FALSE
    /\ n_live = 0
    /\ stop_steps = << >>

\* An operator calls start(), stop() or restart() and reaches `async with`.
lifecycle_call(c, op) ==
    /\ lc_pc[c] = "idle"
    /\ lc_pc' = [lc_pc EXCEPT ![c] = "wait_lock"]
    /\ lc_op' = [lc_op EXCEPT ![c] = op]
    /\ UNCHANGED <<lifecycle_lock, stopping, process>>
    /\ UNCHANGED <<lc_connected, lc_pending, n_live, stop_steps>>
    /\ LifecycleFrame

\* The health loop found the process dead, slept its backoff, saw
\* self._stopping false and is in _disconnect_ipc (lines 490-496).
health_finds_dead ==
    /\ lc_pc[HealthTask] = "loop"
    /\ ~stopping
    /\ ~process
    /\ lc_pc' = [lc_pc EXCEPT ![HealthTask] = "disconnect_dead"]
    /\ UNCHANGED <<lifecycle_lock, lc_op, stopping, process>>
    /\ UNCHANGED <<lc_connected, lc_pending, n_live, stop_steps>>
    /\ LifecycleFrame

\* The health loop's ping of a running process failed: the process is killed
\* and the loop is in _disconnect_ipc (lines 498-509).
health_ping_fails ==
    /\ lc_pc[HealthTask] = "loop"
    /\ ~stopping
    /\ process
    /\ process' = FALSE
    /\ lc_pc' = [lc_pc EXCEPT ![HealthTask] = "disconnect_ping"]
    /\ UNCHANGED <<lifecycle_lock, lc_op, stopping>>
    /\ n_live' = n_live - 1
    /\ UNCHANGED <<lc_connected, lc_pending, stop_steps>>
    /\ LifecycleFrame

\* After the failed ping _disconnect_ipc returns and the loop sleeps its
\* backoff (line 510).
health_ping_disconnected ==
    /\ lc_pc[HealthTask] = "disconnect_ping"
    /\ lc_pc' = [lc_pc EXCEPT ![HealthTask] = "backoff"]
    /\ UNCHANGED <<lifecycle_lock, lc_op, stopping, process>>
    /\ lc_connected' = FALSE
    /\ lc_pending' = PendingAfterDisconnect(lc_pending)
    /\ UNCHANGED <<n_live, stop_steps>>
    /\ LifecycleFrame

\* The sleep after the failed ping is over and self._stopping is set: break,
\* the task ends (lines 511-512).
health_breaks ==
    /\ lc_pc[HealthTask] = "backoff"
    /\ stopping
    /\ lc_pc' = [lc_pc EXCEPT ![HealthTask] = "done"]
    /\ UNCHANGED <<lifecycle_lock, lc_op, stopping, process>>
    /\ UNCHANGED <<lc_connected, lc_pending, n_live, stop_steps>>
    /\ LifecycleFrame

\* The health loop calls self.start(): right after _disconnect_ipc when the
\* process was found dead (line 497, no test of self._stopping in between), or
\* after the sleep that follows a failed ping, self._stopping being false
\* (line 514).
health_calls_start ==
    /\ \/ lc_pc[HealthTask] = "disconnect_dead"
       \/ lc_pc[HealthTask] = "backoff" /\ ~stopping
    /\ lc_pc' = [lc_pc EXCEPT ![HealthTask] = "wait_lock"]
    /\ lc_op' = [lc_op EXCEPT ![HealthTask] = "start"]
    /\ UNCHANGED <<lifecycle_lock, stopping, process>>
    /\ IF lc_pc[HealthTask] = "disconnect_dead"
       THEN /\ lc_connected' = FALSE
            /\ lc_pending' = PendingAfterDisconnect(lc_pending)
       ELSE UNCHANGED <<lc_connected, lc_pending>>
    /\ UNCHANGED <<n_live, stop_steps>>
    /\ LifecycleFrame

\* `async with self._lifecycle_lock` is entered.
lifecycle_acquire(c) ==
    /\ lc_pc[c] = "wait_lock"
    /\ CanAcquire(c)
    /\ lifecycle_lock' = c
    /\ lc_pc' = [lc_pc EXCEPT ![c] = IF lc_op[c] = "start" THEN "start_spawn"
                                                          ELSE "stop_cancel"]
    /\ UNCHANGED <<lc_op, stopping, process>>
    /\ stop_steps' = IF lc_op[c] = "start" THEN stop_steps ELSE << >>
    /\ UNCHANGED <<lc_connected, lc_pending, n_live>>
    /\ LifecycleFrame

\* The positions of the health task outside the lifecycle lock at which its
\* cancellation is raised in the loop itself (a sleep, the ping, the wait for
\* the lifecycle lock) and ends it through `except asyncio.CancelledError`.
HealthCancellable == {"loop", "backoff", "wait_lock"}

\* The positions at which the health task is inside _disconnect_ipc.  Suspended
\* there at `await self._read_task` (the reader not done yet), its cancellation
\* does not end it: cancelling the task cancels the reader, which returns on
\* CancelledError, and a CancelledError raised at that await is passed by
\* `except asyncio.CancelledError: pass` (lines 407-411).  Suspended at
\* `wait_closed()` (the reader done already) the cancellation ends it.
HealthDisconnecting == {"disconnect_dead", "disconnect_ping"}

\* Whether a cancellation of the health task at position `at` ends the task.
CancelEnds(at, at_reader) ==
    at \in HealthCancellable \/ (at \in HealthDisconnecting /\ ~at_reader)

\* _stop_unlocked: self._stopping = True; the monitor task, unless done, is
\* cancelled and awaited.
stop_cancel(c, at_reader) ==
    /\ lc_pc[c] = "stop_cancel"
    /\ at_reader => lc_pc[HealthTask] \in HealthDisconnecting
    /\ stopping' = TRUE
    /\ LET ends == CancelEnds(lc_pc[HealthTask], at_reader) IN
       /\ lc_pc' = [d \in LcCallers |->
                      IF d = c
                      THEN IF ends \/ lc_pc[HealthTask] = "done"
                           THEN "stop_quit" ELSE "stop_await"
                      ELSE IF d = HealthTask /\ ends THEN "done"
                      ELSE lc_pc[d]]
       /\ lc_op' = [lc_op EXCEPT ![HealthTask] = IF ends THEN "none" ELSE @]
    /\ UNCHANGED <<lifecycle_lock, process>>
    /\ stop_steps' = stop_steps \o <<"set_stopping", "cancel_health">>
    /\ UNCHANGED <<lc_connected, lc_pending, n_live>>
    /\ LifecycleFrame

\* `await self._monitor_task` in _stop_unlocked returns: the task is done.
stop_await_done(c) ==
    /\ lc_pc[c] = "stop_await"
    /\ lc_pc[HealthTask] = "done"
    /\ lc_pc' = [lc_pc EXCEPT ![c] = "stop_quit"]
    /\ UNCHANGED <<lifecycle_lock, lc_op, stopping, process>>
    /\ UNCHANGED <<lc_connected, lc_pending, n_live, stop_steps>>
    /\ LifecycleFrame

\* _stop_unlocked: quit is sent over IPC with a 2 s timeout.  Answered, the
\* player exits; not answered (not connected, an error, the timeout), the
\* exception is passed.
stop_quit(c, ok) ==
    /\ lc_pc[c] = "stop_quit"
    /\ ok => (lc_connected /\ process)
    /\ process' = (process /\ ~ok)
    /\ n_live' = IF ok THEN n_live - 1 ELSE n_live
    /\ stop_steps' = Append(stop_steps, "quit")
    /\ lc_pc' = [lc_pc EXCEPT ![c] = "stop_disconnect"]
    /\ UNCHANGED <<lifecycle_lock, lc_op, stopping, lc_connected, lc_pending>>
    /\ LifecycleFrame

\* _stop_unlocked: _disconnect_ipc closes the channel, unsets reader and
\* writer, cancels the pending futures and clears the table.
stop_disconnect(c) ==
    /\ lc_pc[c] = "stop_disconnect"
    /\ lc_connected' = FALSE
    /\ lc_pending' = PendingAfterDisconnect(lc_pending)
    /\ stop_steps' = Append(stop_steps, "close")
    /\ lc_pc' = [lc_pc EXCEPT ![c] = "stop_kill"]
    /\ UNCHANGED <<lifecycle_lock, lc_op, stopping, process, n_live>>
    /\ LifecycleFrame

\* _stop_unlocked: the process is terminated (killed after 5 s), the stderr
\* task cancelled, self._process = None.  stop() then leaves the lock;
\* restart() goes on to its sleep.
stop_kill(c, exited) ==
    /\ lc_pc[c] = "stop_kill"
    /\ ~exited => process
    /\ process' = FALSE
    /\ n_live' = IF process THEN n_live - 1 ELSE n_live
    /\ stop_steps' = stop_steps
                       \o (IF process THEN <<"terminate">> ELSE << >>)
                       \o (IF exited THEN << >> ELSE <<"kill">>)
                       \o <<"stderr">>
    /\ UNCHANGED <<lc_connected, lc_pending>>
    /\ IF lc_op[c] = "restart"
       THEN /\ lc_pc' = [lc_pc EXCEPT ![c] = "restart_sleep"]
            /\ UNCHANGED <<lifecycle_lock, lc_op>>
       ELSE /\ lc_pc' = [lc_pc EXCEPT ![c] = LcRest(c)]
            /\ lc_op' = [lc_op EXCEPT ![c] = "none"]
            /\ lifecycle_lock' = LcFree
    /\ UNCHANGED stopping
    /\ LifecycleFrame

\* restart(): asyncio.sleep(0.5) returns.
restart_sleep_done(c) ==
    /\ lc_pc[c] = "restart_sleep"
    /\ lc_pc' = [lc_pc EXCEPT ![c] = "start_spawn"]
    /\ UNCHANGED <<lifecycle_lock, lc_op, stopping, process>>
    /\ UNCHANGED <<lc_connected, lc_pending, n_live, stop_steps>>
    /\ LifecycleFrame

\* _start_unlocked: self._stopping = False, the stale socket is removed and the
\* process is spawned.  When the spawn raises, the exception leaves the
\* `async with` block (the lock is released) and the caller; for the health
\* task that is the end of the task.
start_spawn(c, ok) ==
    /\ lc_pc[c] = "start_spawn"
    /\ ok => n_live < MaxProcesses
    /\ n_live' = IF ok THEN n_live + 1 ELSE n_live
    /\ UNCHANGED <<lc_connected, lc_pending, stop_steps>>
    /\ stopping' = FALSE
    /\ IF ok
       THEN /\ process' = TRUE
            /\ lc_pc' = [lc_pc EXCEPT ![c] = "start_connect"]
            /\ UNCHANGED <<lifecycle_lock, lc_op>>
       ELSE /\ lc_pc' = [lc_pc EXCEPT ![c] =
                           IF c = HealthTask THEN "done" ELSE "idle"]
            /\ lc_op' = [lc_op EXCEPT ![c] = "none"]
            /\ lifecycle_lock' = LcFree
            /\ UNCHANGED process
    /\ LifecycleFrame

\* _start_unlocked: the socket is awaited, _connect_ipc connects or gives up
\* after its retries (leaving reader and writer as they were), and the monitor
\* task is created when there is none or it is done; the lock is released.
start_connect(c, connected) ==
    /\ lc_pc[c] = "start_connect"
    /\ lc_connected' = (connected \/ lc_connected)
    /\ UNCHANGED <<lc_pending, n_live, stop_steps>>
    /\ lc_pc' = [d \in LcCallers |->
                   IF d = c THEN LcRest(c)
                   ELSE IF d = HealthTask /\ lc_pc[d] = "done" THEN "loop"
                        ELSE lc_pc[d]]
    /\ lc_op' = [lc_op EXCEPT ![c] = "none"]
    /\ lifecycle_lock' = LcFree
    /\ UNCHANGED <<stopping, process>>
    /\ LifecycleFrame

\* A task (overlay loop, health loop, a web handler) has a request written
\* and waits for its answer.
lc_request ==
    /\ lc_connected
    /\ ~lc_pending
    /\ lc_pending' = TRUE
    /\ UNCHANGED <<lifecycle_lock, lc_pc, lc_op, stopping, process, lc_connected,
                   n_live, stop_steps>>
    /\ LifecycleFrame

\* The reader resolves the pending request, or its caller times out.
lc_answer ==
    /\ lc_pending
    /\ lc_pending' = FALSE
    /\ UNCHANGED <<lifecycle_lock, lc_pc, lc_op, stopping, process, lc_connected,
                   n_live, stop_steps>>
    /\ LifecycleFrame

\* A player process the engine no longer refers to exits.
lifecycle_orphan_exits ==
    /\ n_live > (IF process THEN 1 ELSE 0)
    /\ n_live' = n_live - 1
    /\ UNCHANGED <<lifecycle_lock, lc_pc, lc_op, stopping, process, lc_connected,
                   lc_pending, stop_steps>>
    /\ LifecycleFrame

\* The player process exits on its own.
lifecycle_process_exits ==
    /\ process
    /\ process' = FALSE
    /\ UNCHANGED <<lifecycle_lock, lc_pc, lc_op, stopping>>
    /\ n_live' = n_live - 1
    /\ UNCHANGED <<lc_connected, lc_pending, stop_steps>>
    /\ LifecycleFrame

\* ---------------------------------------------------------------------------
\* The tracker mutex: concurrent callers of get_live_status
\* ---------------------------------------------------------------------------

MxFree == 0

\* Tasks that call get_live_status.
Fetchers == 1..NFetchers

\* The positions inside _fetch_live_status_locked: the remote request a caller
\* is suspended at.
FetchPcs == {"fast_poll", "rescan", "switch_poll", "discover", "confirm_poll",
             "upcoming"}

\* How a poll can end: a live or finished status, another status, an exception.
PollOutcomes == {"live", "not_live", "raise"}

CanEnterAlways(c) == TRUE

\* `async with self._lock` is entered once the lock is not held.
CanEnter(c) == tracker_mutex = MxFree

InitMutexVars ==
    /\ tracker_mutex = MxFree
    /\ f_pc = [c \in Fetchers |-> "idle"]
    /\ f_locked = FALSE

\* The fetch logic returns or raises: the `async with` block is left.
FetchReturn(c) ==
    /\ f_pc' = [f_pc EXCEPT ![c] = "idle"]
    /\ tracker_mutex' = MxFree

FetchGoto(c, to) ==
    /\ f_pc' = [f_pc EXCEPT ![c] = to]
    /\ UNCHANGED tracker_mutex

\* get_live_status passes its configuration checks and calls
\* _fetch_live_status, which reaches `async with self._lock`.
fetch_call(c) ==
    /\ f_pc[c] = "idle"
    /\ FetchGoto(c, "wait_mutex")
    /\ UNCHANGED f_locked
    /\ MutexFrame

\* The lock is taken; _fetch_live_status_locked starts its first request.
fetch_enter(c) ==
    /\ f_pc[c] = "wait_mutex"
    /\ CanEnter(c)
    /\ tracker_mutex' = c
    /\ f_pc' = [f_pc EXCEPT ![c] = IF f_locked THEN "fast_poll" ELSE "discover"]
    /\ UNCHANGED f_locked
    /\ MutexFrame

\* The poll of the locked plan answers.
fetch_fast_poll_done(c, out, due) ==
    /\ f_pc[c] = "fast_poll"
    /\ CASE out = "live" ->
              /\ IF due THEN FetchGoto(c, "rescan") ELSE FetchReturn(c)
              /\ UNCHANGED f_locked
         [] out = "not_live" ->
              /\ f_locked' = FALSE
              /\ FetchGoto(c, "discover")
         [] OTHER ->
              /\ FetchReturn(c)
              /\ UNCHANGED f_locked
    /\ MutexFrame

\* The periodic rescan answers: a newer plan is switched to and polled, or not.
fetch_rescan_done(c, switch) ==
    /\ f_pc[c] = "rescan"
    /\ IF switch THEN FetchGoto(c, "switch_poll") ELSE FetchReturn(c)
    /\ UNCHANGED f_locked
    /\ MutexFrame

fetch_switch_poll_done(c) ==
    /\ f_pc[c] = "switch_poll"
    /\ FetchReturn(c)
    /\ UNCHANGED f_locked
    /\ MutexFrame

\* The discovery scan answers.
fetch_discover_done(c, found) ==
    /\ f_pc[c] = "discover"
    /\ FetchGoto(c, IF found THEN "confirm_poll" ELSE "upcoming")
    /\ UNCHANGED f_locked
    /\ MutexFrame

\* The poll of the discovered plan answers.
fetch_confirm_poll_done(c, out) ==
    /\ f_pc[c] = "confirm_poll"
    /\ CASE out = "live" ->
              /\ f_locked' = TRUE
              /\ FetchReturn(c)
         [] out = "not_live" ->
              /\ FetchGoto(c, "upcoming")
              /\ UNCHANGED f_locked
         [] OTHER ->
              /\ FetchReturn(c)
              /\ UNCHANGED f_locked
    /\ MutexFrame

\* The search for the next upcoming plan answers (or raises).
fetch_upcoming_done(c) ==
    /\ f_pc[c] = "upcoming"
    /\ FetchReturn(c)
    /\ UNCHANGED f_locked
    /\ MutexFrame

\* ---------------------------------------------------------------------------
\* Pure functions: countdown and schedule formatting (overlay.py), timing of
\* the active item (pco_client.py)
\* ---------------------------------------------------------------------------

InitCalcVars ==
    /\ calc_pc = "idle"
    /\ calc_in = << >>
    /\ calc_out = << >>

\* The other parts, at rest.
InitRest ==
    /\ InitIpcVars
    /\ InitHealthVars(TRUE, TRUE)
    /\ InitScanVars
    /\ InitTrackerVars
    /\ InitBreakerVars
    /\ InitOverlayVars
    /\ InitLifecycleVars
    /\ InitMutexVars

Abs(x) == IF x < 0 THEN 0 - x ELSE x

Max(a, b) == IF a >= b THEN a ELSE b

\* A string is modelled as the sequence of its characters.
DigitChars == <<"0", "1", "2", "3", "4", "5", "6", "7", "8", "9">>

DigitChar(d) == DigitChars[d + 1]

RECURSIVE DecDigits(_)
\* f"{n}" / f"{n:d}" for n >= 0
DecDigits(n) ==
    IF n < 10 THEN <<DigitChar(n)>>
    ELSE Append(DecDigits(n \div 10), DigitChar(n % 10))

PadNone(n) == DecDigits(n)

\* f"{n:02d}" for n >= 0: at least two digits, zero-filled
Pad2(n) == IF n < 10 THEN <<"0", DigitChar(n)>> ELSE DecDigits(n)

\* format_countdown(total_seconds) for a whole number of seconds
FormatCountdown(total_seconds) ==
    LET negative == total_seconds < 0
        sec_total == Abs(total_seconds)
        h == sec_total \div 3600
        remainder == sec_total % 3600
        m == remainder \div 60
        sec == remainder % 60
        sign == IF negative THEN <<"-">> ELSE << >>
    IN  IF h > 0
        THEN sign \o DecDigits(h) \o <<":">> \o Pad2(m) \o <<":">> \o Pad2(sec)
        ELSE sign \o Pad2(m) \o <<":">> \o Pad2(sec)

format_countdown ==
    /\ calc_pc = "input"
    /\ calc_out' = FormatCountdown(calc_in)
    /\ calc_pc' = "done"
    /\ UNCHANGED calc_in
    /\ CalcFrame

\* Times are whole seconds since midnight UTC of some day; None is no time.
\* strftime('%H:%M') of a time moved into a zone that is tz seconds east.
ClockText(t, tz) ==
    LET local_end == t + tz
    IN  Pad2((local_end \div 3600) % 24) \o <<":">> \o Pad2((local_end \div 60) % 60)

OnTimeInclusive(slip_seconds) == Abs(slip_seconds) <= 60

\* abs(slip_seconds) < 60
OnTime(slip_seconds) == Abs(slip_seconds) < 60

\* _format_schedule_status(remaining, planned_service_end, now, local_tz); the
\* text is given word by word, the end time character by character.
FormatScheduleStatus(remaining, planned_service_end, now, tz) ==
    IF remaining <= 0
    THEN <<"OVERTIME">>
    ELSE LET projected_end == now + remaining
             end_time_str == ClockText(projected_end, tz)
         IN  IF planned_service_end = None
             THEN <<"Ends", "at">> \o end_time_str
             ELSE LET slip_seconds == projected_end - planned_service_end
                      slip_minutes == Abs(slip_seconds) \div 60
                  IN  IF OnTime(slip_seconds)
                      THEN <<"Ends", "on time", "at">> \o end_time_str
                      ELSE IF slip_seconds > 0
                      THEN <<"Ends">> \o DecDigits(slip_minutes)
                              \o <<"m", "behind", "at">> \o end_time_str
                      ELSE <<"Ends">> \o DecDigits(slip_minutes)
                              \o <<"m", "ahead", "at">> \o end_time_str

format_schedule_status ==
    /\ calc_pc = "input"
    /\ calc_out' = FormatScheduleStatus(calc_in.remaining,
                                        calc_in.planned_service_end,
                                        calc_in.now, calc_in.tz)
    /\ calc_pc' = "done"
    /\ UNCHANGED calc_in
    /\ CalcFrame

\* The moments a label is formatted at: shortly before the hour, and shortly
\* before midnight.
ScheduleNows == {3590, 86390}

\* Zones: UTC and one hour east.
TzOffsets == {0, 3600}

\* How far after `now` the planned end lies.
PlannedOffsets == {0, 60, MaxRemaining}

\* The objects of `included` that are plan items: songs and other items with a
\* planned length, before or during the service, and headers, which have no
\* length.  An item's id is its place in `included`.
ItemObjects ==
    [item_type : {"song"}, service_position : {"during", "pre"},
     length : {0, 2, 5}]
      \cup [item_type : {"header"}, service_position : {"during"}, length : {0}]

RECURSIVE SeqsUpTo(_, _)
\* the sequences over S of length 1..n
SeqsUpTo(S, n) ==
    IF n = 0 THEN {}
    ELSE LET shorter == SeqsUpTo(S, n - 1)
         IN  {<<x>> : x \in S} \cup shorter
               \cup {Append(q, x) : q \in {r \in shorter : Len(r) = n - 1}, x \in S}

RECURSIVE ItemsOnlyFrom(_, _)
\* items_only of _parse_live_response: the ids of the Items of `included` from
\* place i on that are no header and have service_position "during"
ItemsOnlyFrom(included, i) ==
    IF i > Len(included) THEN << >>
    ELSE IF /\ included[i].item_type # "header"
            /\ included[i].service_position = "during"
         THEN <<i>> \o ItemsOnlyFrom(included, i + 1)
         ELSE ItemsOnlyFrom(included, i + 1)

RECURSIVE WalkItems(_, _, _, _, _)
\* the for loop of _active_item_status from place i of items on:
\* <<plan_index, remaining_length>> at its end
WalkItems(included, items, current_item_id, i, st) ==
    IF i > Len(items) THEN <<st.plan_index, st.remaining_length>>
    ELSE IF items[i] = current_item_id
         THEN WalkItems(included, items, current_item_id, i + 1,
                        [st EXCEPT !.plan_index = i, !.found_current = TRUE])
         ELSE IF st.found_current
         THEN WalkItems(included, items, current_item_id, i + 1,
                        [st EXCEPT !.remaining_length =
                                      @ + included[items[i]].length])
         ELSE WalkItems(included, items, current_item_id, i + 1, st)

AnchorItemEnd(item_end_time, now) == item_end_time

\* anchor = max(item_end_time, now)
Anchor(item_end_time, now) == Max(item_end_time, now)

\* _active_item_status for a current item with service_position "during"
ActiveItemStatusDuring(included, current_item_id, live_start_at, now) ==
    LET items == ItemsOnlyFrom(included, 1)
        item_length == included[current_item_id].length
        item_end_time == IF live_start_at # None /\ item_length # 0
                         THEN live_start_at + item_length ELSE None
        walk == WalkItems(included, items, current_item_id, 1,
                          [plan_index |-> 0, remaining_length |-> 0,
                           found_current |-> FALSE])
        remaining_length == walk[2]
        service_end_time == IF item_end_time # None
                            THEN Anchor(item_end_time, now) + remaining_length
                            ELSE None
    IN  [item_end_time |-> item_end_time,
         service_end_time |-> service_end_time,
         remaining_items_length |-> remaining_length,
         plan_index |-> walk[1],
         plan_length |-> Len(items)]

active_item_status ==
    /\ calc_pc = "input"
    /\ calc_out' = ActiveItemStatusDuring(calc_in.included, calc_in.current,
                                          calc_in.live_start_at, calc_in.now)
    /\ calc_pc' = "done"
    /\ UNCHANGED calc_in
    /\ CalcFrame

\* live_start_at of the current ItemTime: absent, or a moment.
LiveStarts == {None, 100}

\* datetime.now() when the status is built: before, at and after the planned
\* end of the current item.
ActiveNows == {101, 102, 104, 105, 107}

InitTracker ==
    /\ InitTrackerVars
    /\ InitBreakerVars
    /\ InitOverlayVars
    /\ InitIpcVars
    /\ InitHealthVars(TRUE, TRUE)
    /\ InitScanVars
    /\ InitLifecycleVars
    /\ InitMutexVars
    /\ InitCalcVars

NextTracker ==
    \/ tick
    \/ \E ok \in BOOLEAN : update_credentials(ok)
    \/ get_live_status
    \/ \E resp \in PollAnswers : fast_poll_done(resp)
    \/ \E sts \in TrackerScans : rescan_done(sts)
    \/ \E resp \in PollAnswers : switch_poll_done(resp)
    \/ \E sts \in TrackerScans : discover_done(sts)
    \/ \E resp \in PollAnswers : confirm_poll_done(resp)
    \/ \E out \in {"next", "none", "raise"} : upcoming_done(out)

SpecTracker == InitTracker /\ [][NextTracker]_vars

\* The tracker with failures being recorded, the clock standing still.
NextBreaker ==
    \/ record_failure
    \/ \E ok \in BOOLEAN : update_credentials(ok)
    \/ get_live_status
    \/ \E resp \in PollAnswers : fast_poll_done(resp)
    \/ \E sts \in TrackerScans : discover_done(sts)
    \/ \E resp \in PollAnswers : confirm_poll_done(resp)
    \/ \E out \in {"next", "none", "raise"} : upcoming_done(out)

SpecBreaker == InitTracker /\ [][NextBreaker]_vars

\* The overlay loop as the tracker's only caller, the clock standing still.
NextOverlay ==
    \/ \E interval \in MinPollInterval..MaxPollInterval : overlay_run(interval)
    \/ overlay_slot_no_poll
    \/ overlay_slot_poll
    \/ overlay_poll_done
    \/ overlay_push
    \/ \E result \in PushResults : overlay_push_done(result)
    \/ \E ok \in BOOLEAN : overlay_remove_done(ok)
    \/ overlay_sleep_done
    \/ \E on \in BOOLEAN : set_overlay_enabled(on)
    \/ \E ok \in BOOLEAN : update_credentials(ok)
    \/ \E resp \in {"active", "no_cit", "http_error"} : fast_poll_done(resp)
    \/ \E sts \in TrackerScans : discover_done(sts)
    \/ \E resp \in {"active", "no_cit", "malformed"} : confirm_poll_done(resp)
    \/ \E out \in {"next", "raise"} : upcoming_done(out)

SpecOverlay == InitTracker /\ [][NextOverlay]_vars

NextOverlayStop ==
    \/ \E interval \in MinPollInterval..MaxPollInterval : overlay_run(interval)
    \/ overlay_slot_no_poll
    \/ overlay_slot_poll
    \/ overlay_poll_done
    \/ overlay_push
    \/ \E result \in PushResults : overlay_push_done(result)
    \/ overlay_sleep_done
    \/ \E on \in BOOLEAN : set_overlay_enabled(on)
    \/ overlay_stop
    \/ \E ok \in BOOLEAN : overlay_remove_done(ok)
    \/ overlay_stop_returns
    \/ overlay_start_task
    \/ \E resp \in {"active", "no_cit"} : fast_poll_done(resp)
    \/ \E sts \in TrackerScans : discover_done(sts)
    \/ \E resp \in {"active", "no_cit"} : confirm_poll_done(resp)
    \/ upcoming_done("next")

SpecOverlayStop == InitTracker /\ [][NextOverlayStop]_vars

InitLifecycle == InitTracker

NextLifecycle ==
    \/ \E c \in LcOperators : \E op \in {"start", "stop", "restart"} :
          lifecycle_call(c, op)
    \/ health_finds_dead
    \/ health_ping_fails
    \/ health_ping_disconnected
    \/ health_breaks
    \/ health_calls_start
    \/ \E c \in LcCallers : lifecycle_acquire(c)
    \/ \E c \in LcOperators : \E at_reader \in BOOLEAN : stop_cancel(c, at_reader)
    \/ \E c \in LcOperators : stop_await_done(c)
    \/ \E c \in LcOperators : \E ok \in BOOLEAN : stop_quit(c, ok)
    \/ \E c \in LcOperators : stop_disconnect(c)
    \/ \E c \in LcOperators : \E exited \in BOOLEAN : stop_kill(c, exited)
    \/ \E c \in LcOperators : restart_sleep_done(c)
    \/ \E c \in LcCallers : \E ok \in BOOLEAN : start_spawn(c, ok)
    \/ \E c \in LcCallers : \E connected \in BOOLEAN : start_connect(c, connected)
    \/ lifecycle_process_exits
    \/ lifecycle_orphan_exits
    \/ lc_request
    \/ lc_answer

SpecLifecycle == InitLifecycle /\ [][NextLifecycle]_vars

InitMutex == InitTracker

NextMutex ==
    \/ \E c \in Fetchers : fetch_call(c)
    \/ \E c \in Fetchers : fetch_enter(c)
    \/ \E c \in Fetchers : \E out \in PollOutcomes : \E due \in BOOLEAN :
          fetch_fast_poll_done(c, out, due)
    \/ \E c \in Fetchers : \E switch \in BOOLEAN : fetch_rescan_done(c, switch)
    \/ \E c \in Fetchers : fetch_switch_poll_done(c)
    \/ \E c \in Fetchers : \E found \in BOOLEAN : fetch_discover_done(c, found)
    \/ \E c \in Fetchers : \E out \in PollOutcomes : fetch_confirm_poll_done(c, out)
    \/ \E c \in Fetchers : fetch_upcoming_done(c)

SpecMutex == InitMutex /\ [][NextMutex]_vars

InitCountdown ==
    /\ calc_pc = "input"
    /\ calc_in \in (0 - MaxCountdown)..MaxCountdown
    /\ calc_out = << >>
    /\ InitRest

NextCountdown == format_countdown

SpecCountdown == InitCountdown /\ [][NextCountdown]_vars

InitSchedule ==
    /\ calc_pc = "input"
    /\ \E now \in ScheduleNows :
          calc_in \in [remaining : (0 - 1)..MaxRemaining,
                       planned_service_end :
                           {None} \cup {now + d : d \in PlannedOffsets},
                       now : {now},
                       tz : TzOffsets]
    /\ calc_out = << >>
    /\ InitRest

NextSchedule == format_schedule_status

SpecSchedule == InitSchedule /\ [][NextSchedule]_vars

InitActiveItem ==
    /\ calc_pc = "input"
    /\ \E included \in SeqsUpTo(ItemObjects, MaxItems) :
          calc_in \in [included : {included},
                       current : {i \in 1..Len(included) :
                                     included[i].service_position = "during"},
                       live_start_at : LiveStarts,
                       now : ActiveNows]
    /\ calc_out = << >>
    /\ InitRest

NextActiveItem == active_item_status

SpecActiveItem == InitActiveItem /\ [][NextActiveItem]_vars

InitScan ==
    /\ scan_input \in ScanInputs
    /\ scan_result = NoBest
    /\ scan_done = FALSE
    /\ InitIpcVars
    /\ InitHealthVars(TRUE, TRUE)
    /\ InitTrackerVars
    /\ InitBreakerVars
    /\ InitOverlayVars
    /\ InitLifecycleVars
    /\ InitMutexVars
    /\ InitCalcVars

NextScan == find_best_live_plan

SpecScan == InitScan /\ [][NextScan]_vars

InitHealth ==
    /\ \E url, backup \in BOOLEAN : InitHealthVars(url, backup)
    /\ InitIpcVars
    /\ InitScanVars
    /\ InitTrackerVars
    /\ InitBreakerVars
    /\ InitOverlayVars
    /\ InitLifecycleVars
    /\ InitMutexVars
    /\ InitCalcVars

NextHealth ==
    \/ process_exits
    \/ health_wake
    \/ \E ok \in BOOLEAN : health_ping(ok)
    \/ health_restart_backoff
    \/ \E ok \in BOOLEAN : health_start(ok)
    \/ \E idle \in BOOLEAN : health_status(idle)
    \/ \E overlayOk, elapsed \in BOOLEAN : \E conn \in ConnTypes :
          health_idle(overlayOk, conn, elapsed)
    \/ \E ok \in BOOLEAN : health_load_done(ok)
    \/ \E conn \in ConnTypes : health_not_idle(conn)
    \/ reset_stream_retry
    \/ stop_stream
    \/ load_stream
    \/ \E ok \in BOOLEAN : restart(ok)

SpecHealth == InitHealth /\ [][NextHealth]_vars

\* The steps of the health task itself.
HealthLoopNext ==
    \/ health_wake
    \/ \E ok \in BOOLEAN : health_ping(ok)
    \/ health_restart_backoff
    \/ \E ok \in BOOLEAN : health_start(ok)
    \/ \E idle \in BOOLEAN : health_status(idle)
    \/ \E overlayOk, elapsed \in BOOLEAN : \E conn \in ConnTypes :
          health_idle(overlayOk, conn, elapsed)
    \/ \E ok \in BOOLEAN : health_load_done(ok)
    \/ \E conn \in ConnTypes : health_not_idle(conn)

\* The event loop runs the health task whenever it is ready: every sleep and
\* every awaited call in the loop returns (each has its own timeout).  A spawn
\* that is attempted again and again eventually succeeds.
HealthFairness ==
    /\ WF_vars(HealthLoopNext)
    /\ SF_vars(health_start(TRUE))

\* The engine while nobody stops or restarts it from outside: the health task,
\* the player process, and the calls that leave the health task alone.
NextSupervised ==
    \/ process_exits
    \/ HealthLoopNext
    \/ reset_stream_retry
    \/ stop_stream
    \/ load_stream

SpecHealthLive == InitHealth /\ [][NextSupervised]_vars /\ HealthFairness

InitIpc ==
    /\ InitIpcVars /\ InitHealthVars(TRUE, TRUE) /\ InitScanVars
    /\ InitTrackerVars /\ InitBreakerVars
    /\ InitOverlayVars
    /\ InitLifecycleVars
    /\ InitMutexVars
    /\ InitCalcVars

NextIpc ==
    \/ connect_ipc
    \/ disconnect_ipc_cancel_reader
    \/ disconnect_ipc_clear
    \/ ipc_reader_eof
    \/ \E line \in Lines : ipc_reader(line)
    \/ \E c \in Calls : send_not_connected(c)
    \/ \E c \in Calls : send_write(c)
    \/ \E c \in Calls : send_drained(c)
    \/ \E c \in Calls : send_drain_fails(c)
    \/ \E c \in Calls : send_wakes(c)
    \/ \E c \in Calls : send_timeout(c)
    \/ \E c \in Calls : send_cancelled(c)

SpecIpc == InitIpc /\ [][NextIpc]_vars

\* ---------------------------------------------------------------------------
\* Claims about the IPC channel
\* ---------------------------------------------------------------------------

\* C1: a response line whose request_id matches an outstanding request
\* resolves the call that was assigned that id, whatever the arrival order;
\* a call is resolved at most once and never by a line carrying another id.
C1_ResponseResolvesItsCaller ==
    /\ \A c \in Calls :
          /\ Len(resolvedBy[c]) <= 1
          /\ \A i \in 1..Len(resolvedBy[c]) : resolvedBy[c][i] = rid[c]
    /\ \A r \in delivered :
          \E c \in Calls : rid[c] = r /\ resolvedBy[c] = <<r>>

\* C1 witness: the later request has been resolved by its own response while
\* the earlier one is still outstanding (responses out of issuance order).
C1_Witness ==
    \E c, d \in Calls :
        /\ rid[c] > 0 /\ rid[c] < rid[d]
        /\ resolvedBy[d] = <<rid[d]>>
        /\ pc[c] = "waiting" /\ fut[c] = "pending" /\ rid[c] \in DOMAIN pending

\* C2: a _send call that times out removes exactly its own entry from the
\* pending table, writes nothing more to the socket (no retry) and leaves the
\* entries, futures and positions of the other calls untouched.
C2_TimeoutFreesOwnEntry ==
    [][\A c \in Calls :
          (pc[c] = "waiting" /\ pc'[c] = "timeout") =>
             /\ fut[c] = "pending"
             /\ resolvedBy'[c] = << >>
             /\ DOMAIN pending' = (DOMAIN pending) \ {rid[c]}
             /\ \A k \in DOMAIN pending' : pending'[k] = pending[k]
             /\ wire' = wire
             /\ request_id' = request_id
             /\ \A d \in Calls \ {c} :
                   fut'[d] = fut[d] /\ pc'[d] = pc[d] /\ rid'[d] = rid[d]]_vars

\* C2 witness: a call has timed out while its entry was registered and another
\* call's entry is still in the table.
C2_Witness ==
    \E c, d \in Calls :
        /\ c # d
        /\ pc[c] = "timeout" /\ rid[c] \notin DOMAIN pending
        /\ pc[d] = "waiting" /\ fut[d] = "pending" /\ rid[d] \in DOMAIN pending

\* C3: request ids are strictly increasing positive integers over the whole
\* life of the manager, reconnects included; no two calls share an id, every
\* entry is registered under its owner's id, and only the holder of the IPC
\* lock is between allocation and the end of the write.
C3_IdsStrictlyIncreasing ==
    /\ \A i \in 1..Len(wire) :
          /\ wire[i] > 0
          /\ i > 1 => wire[i - 1] < wire[i]
    /\ \A c \in Calls : rid[c] > 0 =>
          /\ rid[c] <= request_id
          /\ \E i \in 1..Len(wire) : wire[i] = rid[c]
    /\ \A c, d \in Calls : (c # d /\ rid[c] > 0) => rid[c] # rid[d]
    /\ \A k \in DOMAIN pending : rid[pending[k]] = k
    /\ \A c \in Calls : pc[c] = "draining" => ipc_lock = c

\* C3 witness: a request issued before a disconnect and one issued after the
\* reconnect, the later one outstanding under a greater id.
C3_Witness ==
    \E c, d \in Calls :
        /\ rid[c] > 0 /\ rid[d] > rid[c]
        /\ d \in allocAfterReconnect /\ c \notin allocAfterReconnect
        /\ pc[d] = "waiting" /\ rid[d] \in DOMAIN pending

\* ---------------------------------------------------------------------------
\* Claims about stream retry and failover
\* ---------------------------------------------------------------------------

\* A step in which the health loop issues a stream reload.
HealthReloadStep == hstep' = "health_idle" /\ hpc' = "loading"

\* C4: with a backup URL configured, in a streak of consecutive
\* idle-and-reload cycles that began with using_backup false (after start-up,
\* a reset_stream_retry or a not-idle observation), the first two reloads load
\* the primary URL and leave using_backup false, the third loads the backup
\* URL and sets using_backup, and the backup URL is not loaded while the
\* failure counter is below 3.
C4_FailoverOnThirdCycle ==
    [][(HealthReloadStep /\ config_backup_url /\ streakClean') =>
          /\ cycle' < 3 => (use_url' = "primary" /\ ~using_backup')
          /\ cycle' = 3 => (use_url' = "backup" /\ using_backup' /\ ~using_backup)
          /\ use_url' = "backup" => stream_failures' >= 3]_vars

\* C4 witness: the third consecutive cycle has just issued the reload of the
\* backup URL.
C4_Witness ==
    /\ hpc = "loading" /\ config_backup_url /\ streakClean
    /\ cycle = 3 /\ stream_failures = 3
    /\ use_url = "backup" /\ using_backup

\* C5: using_backup, once true, is cleared only by a step that runs
\* reset_stream_retry; until then every reload of the health loop targets the
\* backup URL; a not-idle observation puts failure counter and stream-retry
\* backoff back to their floor and leaves using_backup as it is.
C5_FailoverSticky ==
    [][/\ (using_backup /\ ~using_backup') => lastReset' # "none"
       /\ (HealthReloadStep /\ using_backup /\ lastReset' = "none")
             => (use_url' = "backup" /\ using_backup')
       /\ hstep' = "health_not_idle"
             => /\ stream_failures' = 0
                /\ stream_retry_backoff' = StreamRetryFloor
                /\ using_backup' = using_backup]_vars

\* C5 witness: after a not-idle observation reset the failure counter, the
\* first reload of the next idle streak targets the backup URL.
C5_Witness ==
    /\ hpc = "loading" /\ using_backup /\ use_url = "backup"
    /\ stream_failures = 1 /\ ~streakClean

\* C6: a call of reset_stream_retry puts the stream-retry backoff at its 5 s
\* floor, the last-attempt time at 0, the failure counter at 0, using_backup
\* and user_stopped at false, changes no other engine state, and applying it
\* again to the state it produced changes nothing.
C6_ResetStreamRetry ==
    [][hstep' = "reset_stream_retry" =>
          /\ stream_retry_backoff' = StreamRetryFloor
          /\ last_stream_attempt' = 0
          /\ stream_failures' = 0
          /\ ~using_backup'
          /\ ~user_stopped'
          /\ UNCHANGED <<restart_backoff, last_connection_type, alive,
                         config_url, config_backup_url, use_url>>
          /\ ResetStreamRetry(Engine)' = Engine']_vars

\* C6 witness: reset_stream_retry has just run from a state in which it had
\* something to reset, while the health loop is suspended in a reload.
C6_Witness ==
    /\ hstep = "reset_stream_retry" /\ lastReset = "changed" /\ hpc = "loading"
    /\ stream_retry_backoff = StreamRetryFloor /\ last_stream_attempt = 0
    /\ stream_failures = 0 /\ ~using_backup /\ ~user_stopped
    /\ use_url = "backup"

\* ---------------------------------------------------------------------------
\* Claims about the discovery scan
\* ---------------------------------------------------------------------------

\* Positions <<service type, plan>> of the live candidates of a scan: polled
\* plans whose live resource carries a current-item-time with a live_start_at
\* (the plans listed after a malformed entry of a plan list are not polled).
Candidates(sts) ==
    {ij \in (1..Len(sts)) \X (1..MaxPlans) :
        /\ sts[ij[1]].status = 200
        /\ ij[2] <= Len(sts[ij[1]].plans)
        /\ \A k \in 1..ij[2] : sts[ij[1]].plans[k].kind = "ok"
        /\ sts[ij[1]].plans[ij[2]].live # None}

LiveAt(sts, ij) == sts[ij[1]].plans[ij[2]].live

ScannedBefore(a, b) == a[1] < b[1] \/ (a[1] = b[1] /\ a[2] < b[2])

\* w has the greatest live_start_at and is the first in scan order to have it
IsWinner(sts, w) ==
    /\ w \in Candidates(sts)
    /\ \A o \in Candidates(sts) \ {w} :
          \/ LiveAt(sts, o) < LiveAt(sts, w)
          \/ (LiveAt(sts, o) = LiveAt(sts, w) /\ ScannedBefore(w, o))

TupleOf(sts, w) ==
    LET p == sts[w[1]].plans[w[2]] IN
    [plan_id |-> p.id, st_id |-> sts[w[1]].st, live_start_at |-> p.live,
     service_start |-> p.service_start, planned_end |-> p.planned_end]

ReturnsWinner ==
    /\ Candidates(scan_input) = {} => scan_result = NoBest
    /\ \A w \in Candidates(scan_input) :
          IsWinner(scan_input, w) => scan_result = TupleOf(scan_input, w)

Unlocked == locked_plan_id = None /\ locked_st_id = None

\* C8: between tracker invocations locked_plan_id and locked_st_id are both
\* set or both unset, and whenever they are unset the service start, the
\* planned end and the live_start_at are unset and seen_active_item is false.
C8_LockWhole ==
    tpc = "idle" =>
       /\ (locked_plan_id = None) <=> (locked_st_id = None)
       /\ Unlocked =>
             /\ locked_service_start = None
             /\ locked_planned_end = None
             /\ locked_live_start_at = None
             /\ ~seen_active_item

\* A call that began locked and whose fast-path poll reported live or finished
\* has returned.
LockedLiveCallOver == tpc = "idle" /\ startedLocked /\ fastLive

ScanWasDue == elapsedAtPoll >= _TRACKING_FULL_SCAN_INTERVAL

\* C9 as stated: such a call made one poll, plus one full scan exactly when
\* at least 60 s had passed since the last full scan; rescans are at least
\* 60 s apart.
C9_Original ==
    /\ rescanGapOk
    /\ LockedLiveCallOver =>
          /\ nPolls = 1
          /\ nScans = IF ScanWasDue THEN 1 ELSE 0

\* C9 amended: such a call makes the poll of the locked plan, plus one full
\* scan exactly when at least 60 s have passed since the last full scan, plus
\* one poll of the new plan exactly when that scan switched the lock; two full
\* scans made while locked are never less than 60 s apart.
C9_LockedCallCost ==
    /\ rescanGapOk
    /\ LockedLiveCallOver =>
          /\ nScans = IF ScanWasDue THEN 1 ELSE 0
          /\ nPolls = IF switched THEN 2 ELSE 1
          /\ switched => nScans = 1

\* C9 witness: a locked call whose rescan switched the lock has returned,
\* after one scan and two polls.
C9_Witness ==
    /\ LockedLiveCallOver
    /\ switched
    /\ nPolls = 2
    /\ nScans = 1
    /\ lastRescanAt # None
    /\ locked_plan_id # None
    /\ locked_plan_id # lockAtStart

\* The step in which the fast-path poll of the locked plan answers.
FastPollStep == tpc = "fast_poll" /\ tpc' # "fast_poll"

NoCitAfterActive == lastResp' = "no_cit" /\ seen_active_item

\* C10 as stated: when the poll of the locked plan carries no
\* current-item-time and seen_active_item was set, all lock state is cleared
\* and discovery follows.
C10_Original ==
    [][FastPollStep /\ NoCitAfterActive =>
          /\ Unlocked'
          /\ locked_service_start' = None
          /\ locked_planned_end' = None
          /\ locked_live_start_at' = None
          /\ ~seen_active_item'
          /\ tpc' = "discover"]_vars

\* C10 amended: when the poll of the locked plan carries no current-item-time
\* and seen_active_item was set, the poll reports finished and the lock and
\* the latch are kept; all lock state is cleared, with discovery in the same
\* invocation, exactly when that poll reports neither live nor finished (no
\* current-item-time with the latch unset, 404, or a failed request).
C10_FinishedKeepsLock ==
    [][FastPollStep =>
          /\ NoCitAfterActive =>
                /\ UNCHANGED <<lockFields, seen_active_item>>
                /\ tpc' \in {"idle", "rescan"}
                /\ tpc' = "idle" => returned' = FinishedStatus
                /\ tpc' = "rescan" => t_status' = FinishedStatus
          /\ (tpc' = "discover") <=>
                \/ lastResp' \in {"http_error", "not_found"}
                \/ (lastResp' = "no_cit" /\ ~seen_active_item)
          /\ tpc' = "discover" =>
                /\ Unlocked'
                /\ locked_service_start' = None
                /\ locked_planned_end' = None
                /\ locked_live_start_at' = None
                /\ ~seen_active_item']_vars

\* C10 witness: a locked call whose only poll carried no current-item-time
\* has returned the finished status and the tracker is still locked.
C10_Witness ==
    /\ LockedLiveCallOver
    /\ lastResp = "no_cit"
    /\ nPolls = 1
    /\ returned = FinishedStatus
    /\ seen_active_item
    /\ locked_plan_id # None
    /\ locked_plan_id = lockAtStart

Locked == locked_plan_id # None /\ locked_st_id # None

\* The answer just parsed makes the poll report is_live or finished.
PollReportsLiveOrFinished ==
    \/ lastResp' \in {"cit_no_obj", "end_marker", "pre_service", "active"}
    \/ (lastResp' = "no_cit" /\ seen_active_item)

\* The step in which the periodic rescan of a locked call returns.
RescanStep == tpc = "rescan" /\ tpc' # "rescan"

\* The step in which the poll of the plan the rescan switched to answers.
SwitchPollStep == tpc = "switch_poll" /\ tpc' # "switch_poll"

\* C11: a call that began locked and whose poll of the locked plan reports
\* is_live or finished never clears the lock: the poll step and the last step
\* of the call leave the lock fields as they are, and the rescan step leaves
\* them as they are or replaces them by those of another plan.
C11_LiveCallKeepsLock ==
    [][/\ (FastPollStep /\ PollReportsLiveOrFinished) =>
              /\ UNCHANGED lockFields
              /\ tpc' \in {"idle", "rescan"}
       /\ (RescanStep /\ Locked) =>
              /\ Locked'
              /\ \/ UNCHANGED lockFields /\ tpc' = "idle"
                 \/ locked_plan_id' # locked_plan_id /\ tpc' = "switch_poll"
       /\ SwitchPollStep => UNCHANGED lockFields /\ tpc' = "idle"]_vars

\* C11 witness: a locked call whose poll reported finished and whose rescan
\* found nothing newer has returned, still locked on the same plan.
C11_Witness ==
    /\ LockedLiveCallOver
    /\ ~switched
    /\ nScans = 1
    /\ returned = FinishedStatus
    /\ Locked
    /\ locked_plan_id = lockAtStart

\* C12: the rescan changes the lock only to the scan's winner, a different
\* plan with a live_start_at strictly later than the one recorded for the
\* lock; then all five lock fields are the winner's, seen_active_item is
\* false and the new plan is polled next in the same call; otherwise the lock
\* fields and seen_active_item are unchanged and the call returns.
C12_RescanSwitch ==
    [][RescanStep =>
          IF lockFields' # lockFields
          THEN /\ t_best' # NoBest
               /\ t_best'.plan_id # locked_plan_id
               /\ locked_live_start_at # None
               /\ t_best'.live_start_at > locked_live_start_at
               /\ lockFields' = <<t_best'.plan_id, t_best'.st_id,
                                  t_best'.service_start, t_best'.planned_end,
                                  t_best'.live_start_at>>
               /\ ~seen_active_item'
               /\ tpc' = "switch_poll"
               /\ nPolls' = nPolls
          ELSE /\ UNCHANGED seen_active_item
               /\ tpc' = "idle"]_vars

\* C12 witness: the rescan has switched the lock to a later plan, which is
\* about to be polled, and the latch set for the old plan is reset.
C12_Witness ==
    /\ tpc = "switch_poll"
    /\ switched
    /\ Locked
    /\ locked_plan_id # lockAtStart
    /\ locked_plan_id = t_best.plan_id
    /\ locked_live_start_at = t_best.live_start_at
    /\ ~seen_active_item
    /\ lastResp = "active"

\* ---------------------------------------------------------------------------
\* Claims about the circuit breaker
\* ---------------------------------------------------------------------------

WindowOpen == clock < backoff_until

\* C13: from the fifth consecutive failure on a backoff window is open and
\* below five none is; a get_live_status call made while the window is open
\* issues no remote request (it does not leave "idle") and returns the cached
\* status, which it leaves as it is.
C13_BreakerOpens ==
    [][/\ (consecutive_failures' >= BreakerThreshold
             /\ consecutive_failures' # consecutive_failures) => WindowOpen'
       /\ consecutive_failures < BreakerThreshold => ~WindowOpen
       /\ (WindowOpen /\ tpc = "idle" /\ configured) =>
             /\ tpc' = "idle"
             /\ cached_status' = cached_status
             /\ returned' # returned => returned' = cached_status]_vars

\* A call has just returned after a poll that was answered with a well-formed
\* live session.
PollSucceededStep ==
    /\ tpc \in {"fast_poll", "confirm_poll"}
    /\ tpc' = "idle"
    /\ lastResp' \in {"cit_no_obj", "end_marker", "pre_service", "active"}

\* C14: a successful remote call, and likewise update_credentials (the only
\* operation that changes what is configured), puts the consecutive-failure
\* counter and the backoff deadline back to zero.
C14_BreakerResets ==
    [][(PollSucceededStep \/ configured' # configured) =>
          /\ consecutive_failures' = 0
          /\ backoff_until' = 0]_vars

\* ---------------------------------------------------------------------------
\* Claims about credential errors and failed remote calls
\* ---------------------------------------------------------------------------

\* A step of a get_live_status call (update_credentials and the passing of
\* time leave the call where it is).
CallStep == tpc' # tpc

\* C15: credential_error, set when a request of the call is answered 401 or
\* 403, is still non-empty when the call returns and stays so until
\* update_credentials: no step of a get_live_status call empties it.
C15_CredentialErrorSticks ==
    [][(CallStep /\ credential_error # "") => credential_error' # ""]_vars

\* The step the overlay loop takes at its poll slot.
SlotStep == opc = "slot" /\ opc' # "slot"

PollDue == seconds_since_poll >= o_poll_interval

\* C16: at a poll slot reached while credential_error is non-empty the loop
\* makes no get_live_status call (the tracker stays where it is and the last
\* status is kept), and no call is ever started while the error is set; the
\* iteration goes on to its push, which (the overlay being enabled) pushes
\* the last known status, and every sleep is preceded by that push step; at a
\* due slot reached with the error cleared the call is made.
C16_CredentialErrorSkipsPoll ==
    [][/\ (SlotStep /\ credential_error # "") =>
              /\ tpc' = tpc
              /\ opc' = "push"
              /\ last_status' = last_status
       /\ (tpc = "idle" /\ tpc' # "idle") =>
              credential_error = "" /\ SlotStep
       /\ (SlotStep /\ PollDue /\ credential_error = "") => opc' = "polling"
       /\ (opc = "push" /\ opc' # "push" /\ overlay_enabled) =>
              opc' = "pushing" /\ pushed' = last_status
       /\ (opc' = "sleeping" /\ opc # "sleeping") => opc \in {"push", "pushing"}
      ]_vars

\* C16 witness: a due poll slot was skipped because of a credential error and
\* the iteration is pushing the last known status, the tracker being idle.
C16_Witness ==
    /\ opc = "pushing"
    /\ slotSkipped
    /\ seconds_since_poll = 0
    /\ credential_error # ""
    /\ tpc = "idle"
    /\ pushed = last_status
    /\ last_status # InitializingStatus

\* The step in which a poll of a plan answers (fast path, after a switch, or
\* confirming a discovery).
PollStep == tpc \in {"fast_poll", "switch_poll", "confirm_poll"} /\ tpc' # tpc

\* The step in which a call of get_live_status that made a remote call returns.
CallEndStep == tpc # "idle" /\ tpc' = "idle"

\* C17: when the last poll made during a call of get_live_status failed
\* transiently (request error, timeout, 5xx), the poll of the locked plan
\* included, the call returns the previously cached status, the cache is not
\* overwritten, and a lock that existed when the call began is kept.
C17_TransientKeepsCacheAndLock ==
    [][(CallEndStep /\ nPolls' >= 1 /\ lastResp' = "http_error") =>
          /\ returned' = cached_status
          /\ UNCHANGED cached_status
          /\ (startedLocked => lockFields' = lockStateAtStart[1])]_vars

\* C18: when parsing a polled payload raises, the call returns the cached
\* status, the cache is kept, and the lock fields and seen_active_item are
\* what they were when the call began.
C18_MalformedKeepsLockState ==
    [][(PollStep /\ lastResp' \in {"malformed", "active_malformed"}) =>
          /\ tpc' = "idle"
          /\ returned' = cached_status
          /\ UNCHANGED cached_status
          /\ <<lockFields, seen_active_item>>' = lockStateAtStart]_vars

\* A step taken by the health task (not a call from outside, nor the process).
HealthLoopStep ==
    hstep' \in {"health_wake", "health_ping", "health_restart_backoff",
                "health_start", "health_status", "health_idle",
                "health_load_done", "health_not_idle"}

\* C19: no failure in a step of the health loop (ping, status fetch, overlay
\* push, stream reload, kill, or the restart itself) ends the health task: after
\* every one of its steps the task is still in the loop.
C19_HealthLoopNeverEnds ==
    [][(HealthLoopStep /\ hpc # "crashed") => hpc' # "crashed"]_vars

\* The player process runs and the health task watches it.
Supervised == alive /\ hpc # "crashed"

\* C20: self-healing: whenever the player process is gone (it exited, or it was
\* killed after an unanswered ping), a supervised player process is running
\* again later on.
C20_SelfHealing == (~alive) ~> Supervised

\* The step in which the health loop has slept its restart delay.
RestartWaitStep == hstep' = "health_restart_backoff"

\* C21: while the player keeps crashing or hanging (no ping was answered since
\* the previous restart by the health loop), the delay slept before the next
\* such restart is twice the delay slept before the previous one, up to the cap.
C21_RestartDelayGrows ==
    [][(RestartWaitStep /\ lastWait # 0) =>
          restart_backoff = GrowRestartBackoff(lastWait)]_vars

\* A caller is inside an `async with self._lifecycle_lock` block.
InLifecycleBody(c) == lc_pc[c] \in LcBody

\* C22: start, stop and restart exclude each other: a caller inside a lifecycle
\* operation (restart's sleep between shutdown and startup included) holds the
\* lifecycle lock and no other caller, operator or health task, is inside one.
C22_LifecycleExclusive ==
    \A c \in LcCallers :
        InLifecycleBody(c) =>
            /\ lifecycle_lock = c
            /\ \A d \in LcCallers \ {c} : ~InLifecycleBody(d)

\* A restart is between its shutdown and its startup (the health task was
\* cancelled by the shutdown) while another operator waits for the lock.
C22_Witness ==
    \E c \in LcOperators :
        /\ lc_pc[c] = "restart_sleep"
        /\ lc_pc[HealthTask] = "done"
        /\ \E d \in LcOperators \ {c} : lc_pc[d] = "wait_lock"

\* The step in which _disconnect_ipc unsets the writer and clears the table.
DisconnectClearStep == writer /\ ~writer'

\* A _send call starts while the channel is disconnected.
SendStartsDisconnected(c) == ~writer /\ pc[c] = "idle" /\ pc'[c] # "idle"

\* C23: when _disconnect_ipc completes, the pending table is empty and every
\* request whose future was still pending has been cancelled; reader and writer
\* are unset, so a _send that starts before the next connect fails as not
\* connected and registers nothing.
C23_DisconnectCancelsPending ==
    [][/\ DisconnectClearStep =>
             /\ pending' = << >>
             /\ ~reading'
             /\ \A c \in Calls : fut[c] = "pending" => fut'[c] = "cancelled"
       /\ \A c \in Calls :
             SendStartsDisconnected(c) =>
                 pc'[c] = "not_connected" /\ UNCHANGED pending]_vars

\* A call still waiting for its response finds its future cancelled by a
\* disconnect (a timeout or a cancellation of the caller would have moved it on).
C23_Witness ==
    \E c \in Calls :
        /\ pc[c] = "waiting"
        /\ fut[c] = "cancelled"
        /\ ~writer
        /\ pending = << >>

\* _ipc_reader has read a line that resolves no outstanding request.
ReaderDropsLine == readerSaw' \in {"malformed", "bad_shape", "unmatched"}

\* C24: a line that is malformed, carries no request_id or carries an id with
\* no outstanding request is dropped: the pending table, the futures and the
\* waiting callers are unchanged and the reader goes on reading.
C24_BadLineDropped ==
    [][ReaderDropsLine => UNCHANGED <<pending, fut, pc>> /\ reading']_vars

\* A caller is executing the tracker's fetch logic.
Fetching(c) == f_pc[c] \in FetchPcs

\* C25: at most one execution of the fetch logic (fast-path poll, rescan,
\* discovery, upcoming-plan fallback) is in progress at any time, and it is the
\* holder of the tracker mutex that runs it.
C25_FetchSerialized ==
    \A c \in Fetchers :
        Fetching(c) =>
            /\ tracker_mutex = c
            /\ \A d \in Fetchers \ {c} : ~Fetching(d)

\* One caller is in discovery after its fast-path poll unlocked the tracker,
\* while every other caller waits for the mutex.
C25_Witness ==
    \E c \in Fetchers :
        /\ f_pc[c] \in {"discover", "confirm_poll"}
        /\ \A d \in Fetchers \ {c} : f_pc[d] = "wait_mutex"

\* A step taken while a fetch is suspended at a remote request that is not a
\* step of that fetch.
StepBesideFetch == tpc # "idle" /\ tpc' = tpc

\* C26: lock state is changed only by the task that holds the tracker mutex:
\* while a fetch is in flight, no step other than the fetch's own changes the
\* lock fields or seen_active_item.
C26_LockStateOwnedByFetch ==
    [][StepBesideFetch => UNCHANGED <<lockFields, seen_active_item>>]_vars

TwoDigits(n) == <<DigitChar(n \div 10), DigitChar(n % 10)>>

\* The countdown text the claim describes for t seconds.
CountdownText(t) ==
    LET s == Abs(t)
        h == s \div 3600
        m == (s % 3600) \div 60
        sec == s % 60
        body == IF h > 0
                THEN DecDigits(h) \o <<":">> \o TwoDigits(m) \o <<":">> \o TwoDigits(sec)
                ELSE TwoDigits(m) \o <<":">> \o TwoDigits(sec)
    IN  IF t < 0 THEN <<"-">> \o body ELSE body

\* C28: format_countdown(t) is h:MM:SS when h > 0 and MM:SS otherwise, minutes
\* and seconds zero-padded to two digits, with '-' in front exactly when t < 0;
\* 45 gives 00:45, 125 gives 02:05, 3661 gives 1:01:01 and -30 gives -00:30.
C28_FormatCountdown ==
    calc_pc = "done" =>
        /\ calc_out = CountdownText(calc_in)
        /\ (calc_in = 45 => calc_out = <<"0", "0", ":", "4", "5">>)
        /\ (calc_in = 125 => calc_out = <<"0", "2", ":", "0", "5">>)
        /\ (calc_in = 3661 => calc_out = <<"1", ":", "0", "1", ":", "0", "1">>)
        /\ (calc_in = 0 - 30 => calc_out = <<"-", "0", "0", ":", "3", "0">>)

\* The call format_countdown(-3661) has returned.
C28_Witness ==
    /\ calc_pc = "done"
    /\ calc_in = 0 - 3661
    /\ calc_out = <<"-", "1", ":", "0", "1", ":", "0", "1">>

\* The projected end of the service and its slip against the planned end.
ProjectedEnd == calc_in.now + calc_in.remaining

Slip == ProjectedEnd - calc_in.planned_service_end

\* HH:MM of the projected end in the local zone.
ProjectedEndText ==
    LET t == ProjectedEnd + calc_in.tz
    IN  TwoDigits((t \div 3600) % 24) \o <<":">> \o TwoDigits((t \div 60) % 60)

\* C29: remaining <= 0 yields OVERTIME; otherwise |slip| < 60 s yields 'on
\* time', slip >= 60 s 'Nm behind' and slip <= -60 s 'Nm ahead' with
\* N = floor(|slip| / 60), each followed by the projected end time; with no
\* planned end the label is only 'Ends at HH:MM'.
C29_ScheduleLabel ==
    calc_pc = "done" =>
        /\ calc_in.remaining <= 0 => calc_out = <<"OVERTIME">>
        /\ (calc_in.remaining > 0 /\ calc_in.planned_service_end = None) =>
              calc_out = <<"Ends", "at">> \o ProjectedEndText
        /\ (calc_in.remaining > 0 /\ calc_in.planned_service_end # None) =>
              /\ Abs(Slip) < 60 =>
                    calc_out = <<"Ends", "on time", "at">> \o ProjectedEndText
              /\ Slip >= 60 =>
                    calc_out = <<"Ends">> \o DecDigits(Abs(Slip) \div 60)
                                  \o <<"m", "behind", "at">> \o ProjectedEndText
              /\ Slip <= 0 - 60 =>
                    calc_out = <<"Ends">> \o DecDigits(Abs(Slip) \div 60)
                                  \o <<"m", "ahead", "at">> \o ProjectedEndText

\* A label for a service running 70 s late and ending just after midnight:
\* "Ends 1m behind at 00:01".
C29_Witness ==
    /\ calc_pc = "done"
    /\ calc_in.now = 86390
    /\ calc_in.remaining = 70
    /\ calc_in.planned_service_end = 86390
    /\ calc_in.tz = 0
    /\ calc_out = <<"Ends", "1", "m", "behind", "at", "0", "0", ":", "0", "1">>

\* The current item of the call.
CurrentItem == calc_in.included[calc_in.current]

RECURSIVE SumLengths(_, _)
SumLengths(included, S) ==
    IF S = {} THEN 0
    ELSE LET j == CHOOSE x \in S : TRUE
         IN  included[j].length + SumLengths(included, S \ {j})

\* The sum of the lengths of the during, non-header items after the current one.
LengthAfterCurrent ==
    SumLengths(calc_in.included,
               {j \in (calc_in.current + 1)..Len(calc_in.included) :
                   /\ calc_in.included[j].item_type # "header"
                   /\ calc_in.included[j].service_position = "during"})

\* C30: for a during-service current item with a known live start and a
\* non-zero length: item_end = live start + length, remaining_items_length is
\* the sum of the lengths of the during non-header items after it, and
\* service_end = max(item_end, now) + remaining_items_length; so service_end is
\* never before now + remaining_items_length and is item_end +
\* remaining_items_length while the item has not overrun.
C30_ServiceEnd ==
    (/\ calc_pc = "done"
     /\ calc_in.live_start_at # None
     /\ CurrentItem.length # 0) =>
        LET item_end == calc_in.live_start_at + CurrentItem.length IN
        /\ calc_out.item_end_time = item_end
        /\ calc_out.remaining_items_length = LengthAfterCurrent
        /\ calc_out.service_end_time =
              Max(item_end, calc_in.now) + LengthAfterCurrent
        /\ calc_out.service_end_time >= calc_in.now + LengthAfterCurrent
        /\ (item_end >= calc_in.now =>
              calc_out.service_end_time = item_end + LengthAfterCurrent)

\* The current item has overrun (now is past its planned end); items with a
\* length follow it, and so does an item that is not during the service.
C30_Witness ==
    /\ calc_pc = "done"
    /\ calc_in.live_start_at # None
    /\ CurrentItem.length # 0
    /\ calc_in.now > calc_out.item_end_time
    /\ calc_out.remaining_items_length > 0
    /\ calc_out.service_end_time = calc_in.now + calc_out.remaining_items_length
    /\ \E j \in (calc_in.current + 1)..Len(calc_in.included) :
          calc_in.included[j].service_position = "pre"

\* The locked plan answers the fast-path poll without a current-item-time while
\* the latch has not been set.
NoCitBeforeActive == FastPollStep /\ lastResp' = "no_cit" /\ ~seen_active_item

\* C31: when a locked plan whose latch was never set (it showed at most a
\* pre-service countdown) loses its current-item-time, the poll is "Not live",
\* not finished: nothing is returned or cached by that poll, the lock state is
\* cleared and the same call goes on to discovery.
C31_PreServiceOnlyUnlocks ==
    [][NoCitBeforeActive =>
          /\ tpc' = "discover"
          /\ locked_plan_id' = None /\ locked_st_id' = None
          /\ locked_service_start' = None /\ locked_planned_end' = None
          /\ locked_live_start_at' = None
          /\ ~seen_active_item'
          /\ UNCHANGED <<returned, cached_status>>]_vars

\* A call that began locked, after a call that returned the pre-service
\* countdown, has met the missing current-item-time and is at discovery.
C31_Witness ==
    /\ tpc = "discover"
    /\ startedLocked
    /\ lockAtStart # None
    /\ ~lockStateAtStart[2]
    /\ cached_status = PreServiceStatus
    /\ lastResp = "no_cit"
    /\ nPolls = 1
    /\ locked_plan_id = None

\* The confirming poll of the plan discovery chose ends (with an answer or
\* with an exception).
ConfirmPollStep == tpc = "confirm_poll" /\ tpc' # "confirm_poll"

\* C32: discovery locks onto the winner only if its confirming poll reports
\* live or finished (that status is then what the call returns); in every other
\* case the tracker stays unlocked, the tentative service start, planned end and
\* live_start_at are cleared again and the call goes on to the upcoming-plan
\* fallback.
C32_ConfirmOrClear ==
    [][ConfirmPollStep =>
          IF locked_plan_id' # None
          THEN /\ locked_st_id' # None
               /\ tpc' = "idle"
               /\ LiveOrFinished(returned')
          ELSE /\ locked_st_id' = None
               /\ locked_service_start' = None
               /\ locked_planned_end' = None
               /\ locked_live_start_at' = None
               /\ tpc' = "upcoming"]_vars

\* The candidates of the rescan just made that are another plan than the
\* locked one and carry a live_start_at strictly later than the one recorded
\* for the lock.
NewerThanLock ==
    {w \in Candidates(rescanInput') :
        /\ rescanInput'[w[1]].plans[w[2]].id # locked_plan_id
        /\ locked_live_start_at # None
        /\ LiveAt(rescanInput', w) > locked_live_start_at}

\* The fast-path poll reported live or finished at least the scan interval
\* after the last full scan: the call runs the rescan.
DueCallRescans ==
    (/\ FastPollStep
     /\ PollReportsLiveOrFinished
     /\ clock - last_full_scan >= _TRACKING_FULL_SCAN_INTERVAL) => tpc' = "rescan"

\* The rescan step sets the lock to candidate w of its scan.
SwitchesTo(w) ==
    /\ locked_plan_id' = rescanInput'[w[1]].plans[w[2]].id
    /\ locked_st_id' = rescanInput'[w[1]].st
    /\ locked_plan_id' # None
    /\ tpc' = "switch_poll"

\* C33 as stated: a locked call whose poll reports live or finished at least
\* 60 s after the last full scan runs the rescan, and whenever another plan of
\* that scan carries a live_start_at strictly later than the one recorded for
\* the lock, the rescan step moves the lock to such a plan, the plan id being
\* set at every point of the switch.
C33_Original ==
    [][/\ DueCallRescans
       /\ (RescanStep /\ Locked /\ NewerThanLock # {}) =>
              \E w \in NewerThanLock : SwitchesTo(w)
       /\ SwitchPollStep => UNCHANGED lockFields]_vars

\* C33 amended: the same, for a plan that is also the winner of the rescan
\* (no candidate, the locked plan included, carries a later live_start_at or
\* an equal one earlier in scan order) in a scan none of whose plan lists is
\* answered 401 or 403.
C33_Takeover ==
    [][/\ DueCallRescans
       /\ (RescanStep /\ Locked /\ ~ScanAuthFailed(rescanInput')) =>
              \A w \in NewerThanLock :
                 IsWinner(rescanInput', w) => SwitchesTo(w)
       /\ SwitchPollStep => UNCHANGED lockFields]_vars

\* C33 witness: a call made a scan interval or more after the last full scan
\* found the locked plan still a candidate and the other plan started later:
\* the lock is on the other plan, which is being polled.
C33_Witness ==
    /\ tpc = "switch_poll"
    /\ startedLocked /\ fastLive
    /\ elapsedAtPoll >= _TRACKING_FULL_SCAN_INTERVAL
    /\ \E a, b \in Candidates(rescanInput) :
          /\ rescanInput[a[1]].plans[a[2]].id = lockAtStart
          /\ rescanInput[b[1]].plans[b[2]].id = locked_plan_id
          /\ LiveAt(rescanInput, a) < LiveAt(rescanInput, b)
    /\ locked_plan_id # lockAtStart
    /\ Locked

\* The set_overlay call of the loop ends, and not because stop() cancelled
\* the loop's task.
PushEndStep == opc = "pushing" /\ opc' # "pushing" /\ UNCHANGED stop_pc

\* C34: however a push of the overlay loop ends (answered, failed, timed out,
\* or its pending request cancelled by a disconnect or restart of the engine),
\* the loop keeps running and goes on to its sleep and the next iteration.
C34_OverlayLoopSurvives ==
    [][PushEndStep => (o_running' /\ opc' = "sleeping")]_vars

\* An operator's stop or restart holds the lifecycle lock and awaits the
\* health task it has cancelled.
AwaitsHealthTask(c) == lifecycle_lock = c /\ lc_pc[c] = "stop_await"

\* C35: a stop or restart that holds the lifecycle lock and awaits the health
\* task never finds that task still going: waiting for the lifecycle lock, or
\* past its cancellation and running on.
C35_StopNeverStuck ==
    \A c \in LcOperators :
        AwaitsHealthTask(c) => lc_pc[HealthTask] = "done"

\* _stop_unlocked of caller c returns.
StopEndStep(c) == lc_pc[c] = "stop_kill" /\ lc_pc'[c] # "stop_kill"

\* The orders in which a stop can have done its steps: the process is
\* terminated when it is still running, and killed when it does not exit
\* within 5 s.
StopOrders ==
    {<<"set_stopping", "cancel_health", "quit", "close">> \o t \o <<"stderr">> :
        t \in {<< >>, <<"terminate">>, <<"terminate", "kill">>}}

\* C36: a stop sets stopping, cancels and awaits the health task, sends quit
\* (its failure ignored), closes the channel, terminates the process (killing
\* it after 5 s) and cancels the stderr drain, in this order; when it returns
\* stopping is true, the health task is done, there is no connection, no
\* pending request and no process owned by the engine.
C36_StopOrder ==
    [][\A c \in LcOperators :
          StopEndStep(c) =>
             /\ stop_steps' \in StopOrders
             /\ stopping'
             /\ lc_pc'[HealthTask] = "done"
             /\ ~lc_connected'
             /\ ~lc_pending'
             /\ ~process']_vars

\* A stop that found a connected, running player with a request pending and a
\* health task running has returned after killing the process.
C36_Witness ==
    /\ lifecycle_lock = LcFree
    /\ \A c \in LcCallers : lc_op[c] = "none"
    /\ stop_steps = <<"set_stopping", "cancel_health", "quit", "close",
                      "terminate", "kill", "stderr">>
    /\ stopping
    /\ lc_pc[HealthTask] = "done"
    /\ ~lc_connected /\ ~lc_pending /\ ~process

\* A start spawns a player process.
SpawnStep == n_live' = n_live + 1

\* C39: at most one player process spawned by the engine is running, and a
\* start spawns one only when the process the engine refers to is not running
\* (there is one health task in the model; start_connect creates it only when
\* it is done).
C39_SingleProcess ==
    /\ [](n_live <= 1)
    /\ [][SpawnStep => ~process]_vars

\* C37 as stated: the health loop issues a reload only while user_stopped is
\* false, and after a stop_stream none until the operator calls load_stream or
\* reset_stream_retry.
C37_Original ==
    [][HealthReloadStep => (~user_stopped /\ retry_off = "no")]_vars

\* C37: when the health loop issues a reload, user_stopped is false where the
\* loop reads it (after the reset of the same idle check, if one ran); after a
\* stop_stream it issues none until the operator calls load_stream or
\* reset_stream_retry or the health loop itself ran reset_stream_retry on a
\* connectivity-type change.
C37_ReloadOnlyWhenNotStopped ==
    [][HealthReloadStep =>
          /\ (~user_stopped \/ lastReset' = "changed")
          /\ (retry_off # "operator" \/ lastReset' = "changed")]_vars

\* C37 witness: the operator stopped playback, nothing was called since, and
\* the idle check that met a connectivity change has issued a reload.
C37_Witness ==
    /\ hstep = "health_idle" /\ hpc = "loading"
    /\ retry_off = "network" /\ lastReset = "changed"

\* C38: every entry of the pending table belongs to a _send call that is
\* still inside _send (writing its request or waiting for the response) under
\* that request id.
C38_PendingHasLiveCaller ==
    \A r \in DOMAIN pending :
        /\ pc[pending[r]] \in {"draining", "waiting"}
        /\ rid[pending[r]] = r

\* A step that changes the stream-retry backoff.
StreamBackoffChanges == stream_retry_backoff' # stream_retry_backoff

\* C40: the restart backoff always lies between 3 s and 60 s and the
\* stream-retry backoff between 5 s and 60 s; the stream-retry backoff rises
\* only in the step in which a reload returned, and then to 1.5 times its
\* value (capped at 60 s); a not-idle observation and every run of
\* reset_stream_retry leave it at 5 s.
C40_BackoffsBounded ==
    /\ [](/\ RestartFloor <= restart_backoff /\ restart_backoff <= BackoffCap
          /\ StreamRetryFloor <= stream_retry_backoff
          /\ stream_retry_backoff <= BackoffCap)
    /\ [][/\ stream_retry_backoff' > stream_retry_backoff =>
                /\ hstep' = "health_load_done"
                /\ stream_retry_backoff' = GrowStreamBackoff(stream_retry_backoff)
          /\ (StreamBackoffChanges /\ hstep' # "health_load_done") =>
                stream_retry_backoff' = StreamRetryFloor
          /\ (hstep' \in {"health_not_idle", "reset_stream_retry"}
                \/ lastReset' # "none") =>
                stream_retry_backoff' = StreamRetryFloor]_vars

\* C40 witness: seven accepted reloads have taken the stream-retry backoff to
\* the 60 s cap, and the health loop has doubled the restart backoff.
C40_Witness ==
    /\ stream_retry_backoff = BackoffCap
    /\ restart_backoff = GrowRestartBackoff(RestartFloor)
    /\ hstep = "health_restart_backoff"

====
